---- MODULE Spec2Model ----
(***************************************************************************)
(* Model of the nukedown manga connectors and downloader:                  *)
(*   manga_connectors.py          mangaFoxConnector, OmegaScansConnector   *)
(*   manga_downloader_enhanced.py mangaDownloader                          *)
(*                                                                         *)
(* Python strings are modelled as sequences of one-character strings, so   *)
(* that len(), slicing, "in", split() and the regular expressions of the   *)
(* source are computed on characters and not assumed.                      *)
(***************************************************************************)
EXTENDS Integers, Sequences, FiniteSets, TLC

VARIABLES
    \* ---- mangaFoxConnector.get_pages / _find_page_count_with_binary_search
    pc,                 \* position inside get_pages
    chapter,            \* the chapter dict passed to get_pages
    cdn_pages,          \* K: the CDN serves pages 1..K of this chapter
    chapter_num,        \* digits captured by /chapter-(\d+)
    html_count,         \* <<n>>: _extract_page_count_from_html returned n;
                        \* <<>>: not called, or the chapter page fetch failed
    total_pages,        \* local total_pages of get_pages
    low, high,          \* locals of the binary search
    last_working_page,  \* local of the binary search
    resolved,           \* <<n>>: the binary search returned n; <<>> before
    image_urls,         \* list returned by get_pages (<<>> before the return)
    cdn_flaky,          \* the CDN may time out or fail on any existence probe
    wire,               \* HTTP requests get_pages has sent so far
    \* ---- search_manga / get_chapters of the connectors
    cpc,                \* "search", "searched", "chapters" or "listed"
    connector,          \* "mangafox" or "omegascans"
    query,              \* query string of search_manga
    limit,              \* limit of search_manga (0 stands for None)
    search_answer,      \* what the site serves on its search endpoints
    series_answer,      \* what the site serves for the series of get_chapters
    results,            \* list returned by search_manga
    manga,              \* the manga dict passed to get_chapters
    chapters,           \* list returned by get_chapters
    requests,           \* endpoints requested by the last operation, in order
    \* ---- mangaDownloader._download_chapter_with_connector
    dpc,                \* "idle", "start", "pages" or "done"
    page_urls,          \* sorted(page_urls, key=natural_sort_key)
    page_index,         \* i of the loop over the pages
    attempt,            \* attempt of the retry loop of page i
    retry_delay,        \* retry_delay of page i
    images,             \* list of (filename, image data)
    consecutive_failures,
    failed_pages,       \* page numbers appended to failed_pages
    last_call,          \* the page response handled last and its image answers
    \* ---- mangaDownloader._unpack_fanfox_javascript
    upc,                \* "idle", "packed" or "unpacked"
    packed_js,          \* p_code and k_str captured from the response
    unpacked,           \* result after the substitutions
    \* ---- OmegaScansConnector.get_pages
    page_call,          \* the chapter dict passed to get_pages and what the
                        \* API serves for it
    \* ---- mangaConnector._make_request
    http,               \* timeouts the server still answers with, requests
                        \* sent by the last operation, and whether it raised
    \* ---- start_download.background_download / mangaDownloader.download_manga
    jpc,                \* "idle", "start", "chapter", "downloading", "finish"
                        \* or "done"
    job_status,         \* persisted status of the download row
    job_chapters,       \* len(chapters) of download_manga
    job_idx,            \* idx of the chapter loop
    cbz_files,          \* chapters for which a CBZ file was written
    job_result,         \* dict returned by download_manga (<<>> before)
    detected,           \* a progress poll has seen the cancellation
    after_detect,       \* requests sent and archives written after that poll
    same_path,          \* temp_path of the row equals its destination
    \* ---- mangaDownloader._fetch_chapters, HTML-parsing fallback
    fpc,                \* "idle", "fetch" or "returned"
    fetch_url,          \* url argument: the series url
    fetch_page,         \* what the site serves for url
    parsed,             \* chapters before the final assignment
    fetched             \* list returned by _fetch_chapters

pagesVars == <<pc, chapter, cdn_pages, chapter_num, html_count, total_pages,
               low, high, last_working_page, resolved, image_urls,
               cdn_flaky, wire>>

catalogVars == <<cpc, connector, query, limit, search_answer, series_answer,
                 results, manga, chapters, requests>>

downloadVars == <<dpc, page_urls, page_index, attempt, retry_delay, images,
                  consecutive_failures, failed_pages, last_call>>

unpackVars == <<upc, packed_js, unpacked>>

apiPagesVars == <<page_call>>

httpVars == <<http>>

jobVars == <<jpc, job_status, job_chapters, job_idx, cbz_files, job_result,
             detected, after_detect, same_path>>

fallbackVars == <<fpc, fetch_url, fetch_page, parsed, fetched>>

vars == <<pagesVars, catalogVars, downloadVars, unpackVars, apiPagesVars,
          httpVars, jobVars, fallbackVars>>

\* what an operation of one component leaves alone
notPagesVars    == <<catalogVars, downloadVars, unpackVars, apiPagesVars,
                     httpVars, jobVars, fallbackVars>>
notCatalogVars  == <<pagesVars, downloadVars, unpackVars, apiPagesVars,
                     httpVars, jobVars, fallbackVars>>
notDownloadVars == <<pagesVars, catalogVars, unpackVars, apiPagesVars,
                     httpVars, jobVars, fallbackVars>>
notUnpackVars   == <<pagesVars, catalogVars, downloadVars, apiPagesVars,
                     httpVars, jobVars, fallbackVars>>

----------------------------------------------------------------------------
(* Python str helpers, on sequences of characters.                         *)

Digits == <<"0", "1", "2", "3", "4", "5", "6", "7", "8", "9">>

IsDigit(c) == \E i \in 1..10 : Digits[i] = c

DigitVal(c) == (CHOOSE i \in 1..10 : Digits[i] = c) - 1

\* int(s) for a non-empty string of digits
RECURSIVE StrToInt(_)
StrToInt(s) ==
    IF s = <<>> THEN 0
    ELSE 10 * StrToInt(SubSeq(s, 1, Len(s) - 1)) + DigitVal(s[Len(s)])

\* str(n) for n >= 0
RECURSIVE IntToStr(_)
IntToStr(n) ==
    IF n < 10 THEN <<Digits[n + 1]>>
    ELSE IntToStr(n \div 10) \o <<Digits[(n % 10) + 1]>>

\* s[i:i+len(p)] == p
MatchAt(s, p, i) ==
    /\ i >= 1
    /\ i + Len(p) - 1 <= Len(s)
    /\ SubSeq(s, i, i + Len(p) - 1) = p

\* p in s
Contains(s, p) == \E i \in 1..(Len(s) + 1) : MatchAt(s, p, i)

\* s.startswith(p)
StartsWith(s, p) == MatchAt(s, p, 1)

\* s.find(p), 1-based, 0 when absent
Find(s, p) ==
    IF Contains(s, p)
    THEN CHOOSE i \in 1..(Len(s) + 1) :
            /\ MatchAt(s, p, i)
            /\ \A j \in 1..(i - 1) : ~MatchAt(s, p, j)
    ELSE 0

\* the longest run of digits of s that starts at position i
RECURSIVE DigitRun(_, _)
DigitRun(s, i) ==
    IF i <= Len(s) /\ IsDigit(s[i]) THEN <<s[i]>> \o DigitRun(s, i + 1)
    ELSE <<>>

\* int(s) of an attribute value: optional sign, then digits
IsIntStr(s) ==
    /\ s # <<>>
    /\ LET d == IF s[1] = "-" THEN Tail(s) ELSE s
       IN  d # <<>> /\ \A i \in 1..Len(d) : IsDigit(d[i])

ParseInt(s) == IF s[1] = "-" THEN 0 - StrToInt(Tail(s)) ELSE StrToInt(s)

\* re.search(prefix + r'(\d+)', s): group 1 of the leftmost match, <<>> if none
SearchPrefixDigits(s, prefix) ==
    LET hits == {i \in 1..Len(s) :
                    /\ MatchAt(s, prefix, i)
                    /\ DigitRun(s, i + Len(prefix)) # <<>>}
    IN  IF hits = {} THEN <<>>
        ELSE LET i == CHOOSE h \in hits : \A g \in hits : h <= g
             IN  DigitRun(s, i + Len(prefix))

\* characters in code-point order, for the comparison of Python strings
CodePoints ==
    <<" ", "\"", "%", "+", "-", ".", "/",
      "0", "1", "2", "3", "4", "5", "6", "7", "8", "9", ":", "=", "?",
      "A", "B", "C", "D", "E", "F", "G", "H", "I", "J", "K", "L", "M",
      "N", "O", "P", "Q", "R", "S", "T", "U", "V", "W", "X", "Y", "Z",
      "\\", "_",
      "a", "b", "c", "d", "e", "f", "g", "h", "i", "j", "k", "l", "m",
      "n", "o", "p", "q", "r", "s", "t", "u", "v", "w", "x", "y", "z",
      "{", "}">>

Ord(c) == CHOOSE i \in 1..Len(CodePoints) : CodePoints[i] = c

\* a < b for Python strings
RECURSIVE StrLess(_, _)
StrLess(a, b) ==
    IF b = <<>> THEN FALSE
    ELSE IF a = <<>> THEN TRUE
    ELSE IF a[1] = b[1] THEN StrLess(Tail(a), Tail(b))
    ELSE Ord(a[1]) < Ord(b[1])

\* list.sort(key=...), a stable sort; Before(x, y) is key(x) < key(y).
\* An element moves behind the elements with a smaller key and behind the
\* elements with an equal key that preceded it.
SortBy(s, Before(_, _)) ==
    LET n == Len(s)
        rank(i) == 1 + Cardinality({j \in 1..n :
                          \/ Before(s[j], s[i])
                          \/ (~Before(s[i], s[j]) /\ j < i)})
    IN  [r \in 1..n |-> s[CHOOSE i \in 1..n : rank(i) = r]]

\* number of occurrences of x in the list s
Count(s, x) == Cardinality({i \in 1..Len(s) : s[i] = x})

UpperCase == <<"A", "B", "C", "D", "E", "F", "G", "H", "I", "J", "K", "L", "M",
               "N", "O", "P", "Q", "R", "S", "T", "U", "V", "W", "X", "Y", "Z">>
LowerCase == <<"a", "b", "c", "d", "e", "f", "g", "h", "i", "j", "k", "l", "m",
               "n", "o", "p", "q", "r", "s", "t", "u", "v", "w", "x", "y", "z">>

IsUpper(c) == \E i \in 1..26 : UpperCase[i] = c
IsLower(c) == \E i \in 1..26 : LowerCase[i] = c

LowerChar(c) ==
    IF IsUpper(c) THEN LowerCase[CHOOSE i \in 1..26 : UpperCase[i] = c] ELSE c
UpperChar(c) ==
    IF IsLower(c) THEN UpperCase[CHOOSE i \in 1..26 : LowerCase[i] = c] ELSE c

\* s.lower()
Lower(s) == [i \in 1..Len(s) |-> LowerChar(s[i])]

\* s.title(): a letter after a non-letter is upper-cased, the others lowered
Title(s) ==
    [i \in 1..Len(s) |->
        IF i = 1 \/ ~(IsUpper(s[i - 1]) \/ IsLower(s[i - 1]))
        THEN UpperChar(s[i]) ELSE LowerChar(s[i])]

\* s.replace(a, b) for single characters
ReplaceChar(s, a, b) == [i \in 1..Len(s) |-> IF s[i] = a THEN b ELSE s[i]]

\* s.split(sep)[-1]
RECURSIVE SplitLast(_, _)
SplitLast(s, sep) ==
    IF Find(s, sep) = 0 THEN s
    ELSE SplitLast(SubSeq(s, Find(s, sep) + Len(sep), Len(s)), sep)

\* s.split(sep)[0]
SplitFirst(s, sep) ==
    IF Find(s, sep) = 0 THEN s ELSE SubSeq(s, 1, Find(s, sep) - 1)

\* s.strip() for spaces
RECURSIVE Strip(_)
Strip(s) ==
    IF s = <<>> THEN s
    ELSE IF s[1] = " " THEN Strip(Tail(s))
    ELSE IF s[Len(s)] = " " THEN Strip(SubSeq(s, 1, Len(s) - 1))
    ELSE s

----------------------------------------------------------------------------
(* json.dumps / json.loads on flat objects. An object is a list of         *)
(* [key, val] pairs; a value is an int or a str.                           *)

JInt(n) == [t |-> "int", n |-> n, s |-> <<>>]
JStr(s) == [t |-> "str", n |-> 0, s |-> s]

\* the string escapes of json.dumps
JsonEscape_Raw(s) == s

RECURSIVE JsonEscape(_)
JsonEscape(s) ==
    IF s = <<>> THEN <<>>
    ELSE (IF s[1] = "\"" \/ s[1] = "\\" THEN <<"\\", s[1]>> ELSE <<s[1]>>)
         \o JsonEscape(Tail(s))

JsonQuote(s) == <<"\"">> \o JsonEscape(s) \o <<"\"">>

JsonValue(v) == IF v.t = "int" THEN IntToStr(v.n) ELSE JsonQuote(v.s)

RECURSIVE JsonPairs(_)
JsonPairs(obj) ==
    IF obj = <<>> THEN <<>>
    ELSE JsonQuote(obj[1].key) \o <<":", " ">> \o JsonValue(obj[1].val)
         \o (IF Len(obj) > 1 THEN <<",", " ">> ELSE <<>>)
         \o JsonPairs(Tail(obj))

\* json.dumps(obj)
JsonDumps(obj) == <<"{">> \o JsonPairs(obj) \o <<"}">>

\* reads a JSON string whose opening quote is before position i;
\* [s |-> the string, next |-> the position after the closing quote]
RECURSIVE JsonReadStr(_, _, _)
JsonReadStr(text, i, acc) ==
    IF i > Len(text) THEN [s |-> acc, next |-> i]
    ELSE IF text[i] = "\"" THEN [s |-> acc, next |-> i + 1]
    ELSE IF text[i] = "\\" /\ i < Len(text)
         THEN JsonReadStr(text, i + 2, Append(acc, text[i + 1]))
    ELSE JsonReadStr(text, i + 1, Append(acc, text[i]))

\* reads "key": value pairs from position i up to the closing brace
RECURSIVE JsonReadPairs(_, _, _)
JsonReadPairs(text, i, acc) ==
    IF i > Len(text) \/ text[i] = "}" THEN acc
    ELSE IF text[i] = "," \/ text[i] = " " \/ text[i] = ":"
         THEN JsonReadPairs(text, i + 1, acc)
    ELSE LET k  == JsonReadStr(text, i + 1, <<>>)
             vi == k.next + 2
         IN  IF vi <= Len(text) /\ text[vi] = "\""
             THEN LET v == JsonReadStr(text, vi + 1, <<>>)
                  IN  JsonReadPairs(text, v.next,
                          Append(acc, [key |-> k.s, val |-> JStr(v.s)]))
             ELSE LET d == DigitRun(text, vi)
                  IN  JsonReadPairs(text, vi + Len(d),
                          Append(acc, [key |-> k.s, val |-> JInt(StrToInt(d))]))

\* json.loads(text) raises unless text is an object
JsonIsObject(text) ==
    Len(text) >= 2 /\ text[1] = "{" /\ text[Len(text)] = "}"

\* json.loads(text)
JsonLoads(text) == JsonReadPairs(text, 2, <<>>)

\* key in obj
JsonHas(obj, key) == \E i \in 1..Len(obj) : obj[i].key = key

\* obj[key]
JsonGet(obj, key) == obj[CHOOSE i \in 1..Len(obj) : obj[i].key = key].val

----------------------------------------------------------------------------
(* String constants of the source.                                         *)

S_chapter_dash == <<"/", "c", "h", "a", "p", "t", "e", "r", "-">>
S_chapter_dir  == <<"/", "c", "h", "a", "p", "t", "e", "r", "/">>
S_manga_dir    == <<"/", "m", "a", "n", "g", "a", "/">>
S_base_url     == <<"h", "t", "t", "p", "s", ":", "/", "/",
                     "m", "a", "n", "g", "a", "h", "u", "b", ".", "u", "s">>
S_http         == <<"h", "t", "t", "p">>

S_https        == <<"h", "t", "t", "p", "s", ":">>
S_foo          == <<"f", "o", "o">>
S_bar          == <<"b", "a", "r">>

\* urllib.parse.urljoin(base, href) for a base without a path
UrlJoin(base, href) ==
    IF StartsWith(href, S_http) THEN href
    ELSE IF StartsWith(href, <<"/", "/">>) THEN S_https \o href
    ELSE IF StartsWith(href, <<"/">>) THEN base \o href
    ELSE base \o <<"/">> \o href

\* no connector operation has been called
IdleCatalog ==
    /\ cpc = "idle"
    /\ connector = "mangafox"
    /\ query = <<>>
    /\ limit = 0
    /\ search_answer = [kind |-> "none"]
    /\ series_answer = [kind |-> "none"]
    /\ results = <<>>
    /\ manga = [id |-> <<>>]
    /\ chapters = <<>>
    /\ requests = <<>>

\* no chapter download has been started
IdleDownload ==
    /\ dpc = "idle"
    /\ page_urls = <<>>
    /\ page_index = 0
    /\ attempt = 0
    /\ retry_delay = 1
    /\ images = <<>>
    /\ consecutive_failures = 0
    /\ failed_pages = <<>>
    /\ last_call = [kind |-> "none"]

\* no packed script is being unpacked
IdleUnpack ==
    /\ upc = "idle"
    /\ packed_js = [p_code |-> <<>>, k_str |-> <<>>]
    /\ unpacked = <<>>

\* OmegaScansConnector.get_pages has not been called
IdleApiPages == page_call = [kind |-> "none"]

\* no request is being made through _make_request
IdleHttp == http = [timeouts |-> 0, sent |-> 0, raised |-> FALSE]

\* no download job is running
IdleJob ==
    /\ jpc = "idle"
    /\ job_status = "pending"
    /\ job_chapters = 0
    /\ job_idx = 0
    /\ cbz_files = <<>>
    /\ job_result = <<>>
    /\ detected = FALSE
    /\ after_detect = [requests |-> 0, archives |-> 0]
    /\ same_path = FALSE

\* _fetch_chapters has not been called
IdleFallback ==
    /\ fpc = "idle"
    /\ fetch_url = "none"
    /\ fetch_page = [kind |-> "none"]
    /\ parsed = <<>>
    /\ fetched = <<>>

----------------------------------------------------------------------------
(* mangaFoxConnector.get_pages and the Page-Count Resolver                 *)

MaxPages == 1001        \* the CDN of a chapter serves pages 1..K, K <= MaxPages

SearchHigh     == 500   \* high = 500
ProbeCeiling   == 1000  \* while high <= 1000
FallbackPages  == 50    \* total_pages = 50
PageCeiling    == 500   \* elif total_pages > 500: total_pages = 500

S_cdn_primary == <<"h", "t", "t", "p", "s", ":", "/", "/", "i", "m", "g", "x",
                   ".", "m", "g", "h", "c", "d", "n", ".", "c", "o", "m">>

\* chapter dicts handed to get_pages: 'url' and 'manga_id'
Chapters ==
    { [url |-> S_base_url \o S_chapter_dir \o S_foo \o S_chapter_dash
                  \o <<"1", "2">> \o <<"?", "p", "=", "3">>,
       manga_id |-> S_foo],
      [url |-> S_base_url \o S_manga_dir \o S_foo,
       manga_id |-> S_foo] }

\* What BeautifulSoup finds in a chapter page, per extraction method.
\* option 'value' attributes of the page <select>
OptionLists   == {<<>>, << <<"1">>, <<"6", "0", "0">> >>, << <<"x">> >>,
                  << <<"1">>, <<"0">> >>}
\* numbers captured by page=(\d+) in the navigation links
PageLinkLists == {<<>>, <<2, 24, 3>>, <<0>>}
\* number of lazy-loaded <img> elements
ImageCounts   == {0, 23}
\* number captured in the first matching <script>, if any
ScriptPages   == {<<>>, <<0>>, <<1000>>}
\* values of the data-pages attributes, in document order
DataAttrLists == {<<>>, << <<"x">>, <<"4", "0">> >>, << <<"-", "5">> >>}

Soups == [options : OptionLists, page_numbers : PageLinkLists,
          images : ImageCounts, script : ScriptPages, data : DataAttrLists]

RECURSIVE MaxOf(_)
MaxOf(s) ==
    IF Len(s) = 1 THEN s[1]
    ELSE LET m == MaxOf(Tail(s)) IN IF s[1] >= m THEN s[1] ELSE m

\* first value of the data attributes that int() accepts, else 0
RECURSIVE FirstInt(_)
FirstInt(s) ==
    IF s = <<>> THEN 0
    ELSE IF ~IsIntStr(s[1]) THEN FirstInt(Tail(s))
    ELSE ParseInt(s[1])

\* _extract_page_count_from_html
ExtractPageCount(soup) ==
    IF soup.options # <<>>
    THEN LET last == soup.options[Len(soup.options)]
         IN  IF ~IsIntStr(last) THEN Len(soup.options)
             ELSE IF ParseInt(last) > 0 THEN ParseInt(last)
             ELSE Len(soup.options)
    ELSE IF soup.page_numbers # <<>> THEN MaxOf(soup.page_numbers)
    ELSE IF soup.images > 0 THEN soup.images
    ELSE IF soup.script # <<>> THEN soup.script[1]
    ELSE FirstInt(soup.data)

\* session.head(url).status_code == 200 for page p of the chapter
Exists(p) == p \in 1..cdn_pages

\* one iteration of "while high <= 1000": <<low, high, continue?>>
ExpStep_SkipLow(lo, hi, exists) ==
    IF exists THEN <<hi + 1, hi * 2, TRUE>> ELSE <<lo, hi, FALSE>>

ExpStep(lo, hi, exists) ==
    IF exists THEN <<hi, hi * 2, TRUE>> ELSE <<lo, hi, FALSE>>

\* one iteration of "while low <= high": <<low, high, last_working_page>>
BinStep_OneDown(lo, hi, last, mid, exists) ==
    IF exists THEN <<mid + 1, hi, mid>> ELSE <<lo, hi - 1, last>>

BinStep(lo, hi, last, mid, exists) ==
    IF exists THEN <<mid + 1, hi, mid>> ELSE <<lo, mid - 1, last>>

\* "Validate page count" of get_pages
ValidatePageCount_NoFallback(n) ==
    IF n > PageCeiling THEN PageCeiling ELSE IF n < 0 THEN 0 ELSE n

ValidatePageCount_NoClamp(n) ==
    IF n <= 0 THEN FallbackPages ELSE n

ValidatePageCount(n) ==
    IF n <= 0 THEN FallbackPages
    ELSE IF n > PageCeiling THEN PageCeiling
    ELSE n

\* f'{cdn_domain}/{manga_name}/{chapter_num}/{page_num}.jpg', kept by field
PageUrl_FromZero(cdn_domain, manga_name, chap, page_num) ==
    [cdn_domain |-> cdn_domain, manga_name |-> manga_name,
     chapter_num |-> chap, page_num |-> page_num - 1, ext |-> "jpg"]

PageUrl(cdn_domain, manga_name, chap, page_num) ==
    [cdn_domain |-> cdn_domain, manga_name |-> manga_name,
     chapter_num |-> chap, page_num |-> page_num, ext |-> "jpg"]

\* for page_num in range(1, total_pages + 1): image_urls.append(url)
BuildImageUrls(cdn_domain, manga_name, chap, n) ==
    [p \in 1..n |-> PageUrl(cdn_domain, manga_name, chap, p)]

\* nothing sent: GET and HEAD requests, how many of them followed a
\* time.sleep(request_delay), the pages a probe answered 200 for, and the
\* probes that timed out or failed
NoRequests == [gets |-> 0, heads |-> 0, delays |-> 0, confirmed |-> {},
               failures |-> 0]

\* what session.head can give for page p: status 200, another status, or
\* requests.Timeout / requests.RequestException
ProbeOutcomes(p) ==
    {IF Exists(p) THEN "exists" ELSE "missing"}
    \cup (IF cdn_flaky THEN {"timeout", "error"} ELSE {})

\* response.status_code == 200 inside the try; the except branches do what
\* the else branch does
ProbeSaysExists_ErrorAsExists(outcome) == outcome # "missing"

ProbeSaysExists(outcome) == outcome = "exists"

\* self.session.head(url, timeout=5) called directly for page p
SessionHead(w, p, outcome) ==
    [w EXCEPT !.heads = @ + 1,
              !.confirmed = IF outcome = "exists" THEN @ \cup {p} ELSE @,
              !.failures = IF outcome \in {"timeout", "error"} THEN @ + 1 ELSE @]

\* self.session.get(chapter_url, timeout=10) called directly
SessionGet(w) == [w EXCEPT !.gets = @ + 1]

\* get_pages has not been called
IdlePages ==
    /\ pc = "idle"
    /\ chapter = [url |-> <<>>, manga_id |-> <<>>]
    /\ cdn_pages = 0
    /\ chapter_num = <<>>
    /\ html_count = <<>>
    /\ total_pages = 0
    /\ low = 1
    /\ high = SearchHigh
    /\ last_working_page = 0
    /\ resolved = <<>>
    /\ image_urls = <<>>
    /\ cdn_flaky = FALSE
    /\ wire = NoRequests

InitPages ==
    /\ IdleFallback
    /\ IdleCatalog
    /\ IdleDownload
    /\ IdleUnpack
    /\ IdleApiPages
    /\ IdleHttp
    /\ IdleJob
    /\ pc = "start"
    /\ chapter \in Chapters
    /\ cdn_pages \in 0..MaxPages
    /\ chapter_num = <<>>
    /\ html_count = <<>>
    /\ total_pages = 0
    /\ low = 1
    /\ high = SearchHigh
    /\ last_working_page = 0
    /\ resolved = <<>>
    /\ image_urls = <<>>
    /\ cdn_flaky = FALSE
    /\ wire = NoRequests

\* get_pages up to the chapter-number regex
GetPagesStart ==
    /\ pc = "start"
    /\ LET m == SearchPrefixDigits(chapter.url, S_chapter_dash)
       IN  IF m = <<>>
           THEN /\ pc' = "done"
                /\ UNCHANGED chapter_num
           ELSE /\ pc' = "fetch"
                /\ chapter_num' = m
    /\ UNCHANGED notPagesVars
    /\ UNCHANGED <<wire, cdn_flaky>>
    /\ UNCHANGED <<chapter, cdn_pages, html_count, total_pages, low, high,
                   last_working_page, resolved, image_urls>>

\* the chapter page is fetched and parsed for a page count
FetchChapterPage_ProbeAlways ==
    /\ pc = "fetch"
    /\ \/ /\ html_count' = <<>>           \* session.get raised
          /\ total_pages' = 0
       \/ \E soup \in Soups :
             /\ html_count' = <<ExtractPageCount(soup)>>
             /\ total_pages' = ExtractPageCount(soup)
    /\ wire' = SessionGet(wire)
    /\ pc' = "exp"
    /\ low' = 1
    /\ high' = SearchHigh
    /\ UNCHANGED notPagesVars
    /\ UNCHANGED cdn_flaky
    /\ UNCHANGED <<chapter, cdn_pages, chapter_num, last_working_page,
                   resolved, image_urls>>

FetchChapterPage ==
    /\ pc = "fetch"
    /\ \/ /\ html_count' = <<>>           \* session.get raised
          /\ total_pages' = 0
       \/ \E soup \in Soups :
             /\ html_count' = <<ExtractPageCount(soup)>>
             /\ total_pages' = ExtractPageCount(soup)
    /\ wire' = SessionGet(wire)
    /\ pc' = IF total_pages' = 0 THEN "exp" ELSE "validate"
    /\ low' = 1
    /\ high' = SearchHigh
    /\ UNCHANGED notPagesVars
    /\ UNCHANGED cdn_flaky
    /\ UNCHANGED <<chapter, cdn_pages, chapter_num, last_working_page,
                   resolved, image_urls>>

\* one probe of the upper-bound loop
ExpProbe ==
    /\ pc = "exp"
    /\ high <= ProbeCeiling
    /\ \E outcome \in ProbeOutcomes(high) :
          LET r == ExpStep(low, high, ProbeSaysExists(outcome))
          IN  /\ low' = r[1]
              /\ high' = r[2]
              /\ pc' = IF r[3] THEN "exp" ELSE "bin"
              /\ wire' = SessionHead(wire, high, outcome)
    /\ last_working_page' = 0
    /\ UNCHANGED notPagesVars
    /\ UNCHANGED cdn_flaky
    /\ UNCHANGED <<chapter, cdn_pages, chapter_num, html_count, total_pages,
                   resolved, image_urls>>

\* the upper-bound loop ends because high > 1000
ExpDone ==
    /\ pc = "exp"
    /\ high > ProbeCeiling
    /\ pc' = "bin"
    /\ last_working_page' = 0
    /\ UNCHANGED notPagesVars
    /\ UNCHANGED <<wire, cdn_flaky>>
    /\ UNCHANGED <<chapter, cdn_pages, chapter_num, html_count, total_pages,
                   low, high, resolved, image_urls>>

\* one probe of the binary search
BinProbe ==
    /\ pc = "bin"
    /\ low <= high
    /\ \E outcome \in ProbeOutcomes((low + high) \div 2) :
          LET mid == (low + high) \div 2
              r   == BinStep(low, high, last_working_page, mid,
                             ProbeSaysExists(outcome))
          IN  /\ low' = r[1]
              /\ high' = r[2]
              /\ last_working_page' = r[3]
              /\ wire' = SessionHead(wire, mid, outcome)
    /\ UNCHANGED notPagesVars
    /\ UNCHANGED cdn_flaky
    /\ UNCHANGED <<pc, chapter, cdn_pages, chapter_num, html_count,
                   total_pages, resolved, image_urls>>

\* the binary search returns last_working_page (0 when none worked)
ResolverReturn ==
    /\ pc = "bin"
    /\ low > high
    /\ resolved' = <<last_working_page>>
    /\ total_pages' = last_working_page
    /\ pc' = "validate"
    /\ UNCHANGED notPagesVars
    /\ UNCHANGED <<wire, cdn_flaky>>
    /\ UNCHANGED <<chapter, cdn_pages, chapter_num, html_count, low, high,
                   last_working_page, image_urls>>

\* the count is validated and the URLs are generated on the first CDN domain
GetPagesReturn ==
    /\ pc = "validate"
    /\ total_pages' = ValidatePageCount(total_pages)
    /\ image_urls' = BuildImageUrls(S_cdn_primary, chapter.manga_id,
                                    chapter_num, total_pages')
    /\ pc' = "done"
    /\ UNCHANGED notPagesVars
    /\ UNCHANGED <<wire, cdn_flaky>>
    /\ UNCHANGED <<chapter, cdn_pages, chapter_num, html_count, low, high,
                   last_working_page, resolved>>

NextPages ==
    \/ GetPagesStart
    \/ FetchChapterPage
    \/ ExpProbe
    \/ ExpDone
    \/ BinProbe
    \/ ResolverReturn
    \/ GetPagesReturn

SpecPages == InitPages /\ [][NextPages]_vars

\* page counts of the chapters whose CDN answers unreliably
ProbedPageCounts == {0, 1, 23, 499, 500, 501, 999, 1000, 1001, 2000}

\* get_pages against a CDN on which any probe may time out or fail
InitProbes ==
    /\ IdleFallback
    /\ IdleCatalog
    /\ IdleDownload
    /\ IdleUnpack
    /\ IdleApiPages
    /\ IdleHttp
    /\ IdleJob
    /\ pc = "start"
    /\ chapter \in Chapters
    /\ cdn_pages \in ProbedPageCounts
    /\ chapter_num = <<>>
    /\ html_count = <<>>
    /\ total_pages = 0
    /\ low = 1
    /\ high = SearchHigh
    /\ last_working_page = 0
    /\ resolved = <<>>
    /\ image_urls = <<>>
    /\ cdn_flaky = TRUE
    /\ wire = NoRequests

SpecProbes == InitProbes /\ [][NextPages]_vars

\* the resolver is a loop of one thread: a step that is possible is taken
SpecProbesFair == SpecProbes /\ WF_vars(NextPages)

\* C21: with pages 1..K existing and any subset of the probes timing out
\* or failing, a failed probe counts as "does not exist" and the resolver
\* returns 0 or a page whose probe answered "exists" in this call, so never
\* more than K.
C21_FailedProbesConservative ==
    /\ \A o \in {"timeout", "error"} :
          ProbeSaysExists(o) = ProbeSaysExists("missing")
    /\ resolved # <<>> =>
          /\ resolved[1] = 0 \/ resolved[1] \in wire.confirmed
          /\ resolved[1] <= cdn_pages
    /\ wire.confirmed \subseteq 1..cdn_pages

\* 23 pages exist, some probes failed, and the resolver under-counted
C21_Witness ==
    /\ cdn_pages = 23
    /\ wire.failures > 0
    /\ resolved # <<>>
    /\ resolved[1] \in 1..22

\* probes of "while high <= 1000" when every probe answers 200
RECURSIVE Doublings(_)
Doublings(h) == IF h > ProbeCeiling THEN 0 ELSE 1 + Doublings(h * 2)

RECURSIVE Log2Floor(_)
Log2Floor(n) == IF n <= 1 THEN 0 ELSE 1 + Log2Floor(n \div 2)

\* the doubling probes, then a binary search over at most the pages
\* ProbeCeiling .. 2 * ProbeCeiling
ProbeBudget == Doublings(SearchHigh) + Log2Floor(ProbeCeiling + 1) + 1

\* C22: for every pattern of probe outcomes the resolver returns, after at
\* most the doubling probes up to the ceiling plus a logarithmic number of
\* binary-search probes.
C22_ResolverTerminates ==
    /\ [](wire.heads <= ProbeBudget)
    /\ [](pc \in {"exp", "bin"} => <>(resolved # <<>>))

\* all probes failed on a chapter of 1001 pages, and the resolver returned
C22_Witness ==
    /\ cdn_pages = 1001
    /\ resolved = <<0>>
    /\ wire.heads > 1
    /\ wire.failures = wire.heads


\* the chapter page advertised no page count (parse gave 0 or fetch failed)
NoAdvertisedCount == html_count = <<>> \/ html_count = <<0>>

\* get_pages returned after the chapter-number regex matched
GetPagesReturned == pc = "done" /\ chapter_num # <<>>

\* C1: with pages 1..K served and every page above K missing, the binary
\* search returns exactly K, for every K in 1..1000.
C1_ResolverReturnsK ==
    (resolved # <<>> /\ cdn_pages \in 1..1000) => resolved[1] = cdn_pages

C1_Witness == cdn_pages = 1000 /\ resolved = <<1000>>

\* the count a step of get_pages produced, capped as "Validate page count"
\* caps it
Capped(n) == IF n > PageCeiling THEN PageCeiling ELSE n

\* C23: the strategies run in a fixed order: a positive count parsed from
\* the chapter HTML is used (capped at 500) and no probe is sent; probes
\* are sent only when the HTML step gave 0 or failed; the default of 50 is
\* applied only when neither step gave a positive count.
C23_StrategyOrder ==
    GetPagesReturned =>
        /\ (html_count # <<>> /\ html_count[1] > 0)
              => (wire.heads = 0 /\ total_pages = Capped(html_count[1]))
        /\ wire.heads > 0 => NoAdvertisedCount
        /\ (resolved # <<>> /\ resolved[1] > 0)
              => total_pages = Capped(resolved[1])
        /\ total_pages # FallbackPages
              => \/ html_count # <<>> /\ html_count[1] > 0
                 \/ resolved # <<>> /\ resolved[1] > 0

\* the chapter page advertised 23 pages and get_pages returned 23 URLs
\* without a probe
C23_Witness ==
    /\ GetPagesReturned
    /\ html_count = <<23>>
    /\ wire = [NoRequests EXCEPT !.gets = 1]
    /\ Len(image_urls) = 23

\* C23 as stated: a positive count parsed from the HTML is the number of
\* pages returned, unchanged.
C23_HtmlCountUsedAsIs ==
    (GetPagesReturned /\ html_count # <<>> /\ html_count[1] > 0)
        => (wire.heads = 0 /\ Len(image_urls) = html_count[1])

\* C24: every HTTP request of the operation follows the connector's
\* inter-request delay.
C24_EveryRequestDelayed == wire.delays = wire.gets + wire.heads

\* cdn_domains of get_pages: primary, fallback 1, fallback 2
CdnDomains ==
    <<S_cdn_primary,
      <<"h", "t", "t", "p", "s", ":", "/", "/", "i", "m", "g",
        ".", "m", "g", "h", "c", "d", "n", ".", "c", "o", "m">>,
      <<"h", "t", "t", "p", "s", ":", "/", "/", "i", "m", "g", "1",
        ".", "m", "g", "h", "c", "d", "n", ".", "c", "o", "m">> >>

\* every request sent to the primary CDN domain timed out or failed
PrimaryFailedOutright == wire.heads > 0 /\ wire.failures = wire.heads

\* C25: the page URLs are on the primary CDN domain while it works and on
\* the next domain of the list when the primary domain fails outright.
C25_NextDomainOnFailure ==
    (GetPagesReturned /\ image_urls # <<>>) =>
        \A k \in 1..Len(image_urls) :
            image_urls[k].cdn_domain =
                IF PrimaryFailedOutright THEN CdnDomains[2] ELSE CdnDomains[1]

\* C5: when no page exists and the chapter page advertises no count,
\* get_pages generates the 50 fallback pages and never an empty list.
C5_FallbackWhenNoPages ==
    (GetPagesReturned /\ cdn_pages = 0 /\ NoAdvertisedCount)
        => (total_pages = FallbackPages /\ Len(image_urls) = 50)

C5_Witness ==
    /\ GetPagesReturned /\ cdn_pages = 0 /\ resolved = <<0>>
    /\ Len(image_urls) = 50

\* C6: whatever the HTML extraction and the probes gave, get_pages never
\* returns more than 500 URLs.
C6_ClampedToCeiling == Len(image_urls) <= 500

C6_Witness ==
    /\ GetPagesReturned /\ html_count = <<600>> /\ Len(image_urls) = 500

\* C7: no advertised count, pages 1..23 exist and page 24 does not:
\* get_pages returns 23 URLs, page 1 first, each
\* {cdnDomain}/{seriesSlug}/{chapterNumber}/{pageNumber}.jpg.
C7_TwentyThreePages ==
    (GetPagesReturned /\ NoAdvertisedCount /\ cdn_pages = 23)
        => /\ Len(image_urls) = 23
           /\ \A p \in 1..23 :
                 image_urls[p] = [cdn_domain |-> S_cdn_primary,
                                  manga_name |-> chapter.manga_id,
                                  chapter_num |-> <<"1", "2">>,
                                  page_num |-> p, ext |-> "jpg"]

C7_Witness ==
    /\ GetPagesReturned /\ NoAdvertisedCount /\ cdn_pages = 23
    /\ resolved = <<23>> /\ Len(image_urls) = 23

----------------------------------------------------------------------------
(* mangaFoxConnector.get_chapters                                          *)

MaxLinks == 3           \* anchors of a series page

S_Chapter_sp == <<"C", "h", "a", "p", "t", "e", "r", " ">>

\* href attributes found on the page of series "foo"
H10      == S_chapter_dir \o S_foo \o S_chapter_dash \o <<"1", "0">>
H10abs   == S_base_url \o H10
H10page  == H10 \o <<"?", "p", "=", "2">>
H10_5    == H10 \o <<".", "5">>
H11      == S_chapter_dir \o S_foo \o S_chapter_dash \o <<"1", "1">>
H9       == S_chapter_dir \o S_foo \o S_chapter_dash \o <<"9">>
Hbar     == S_chapter_dir \o S_bar \o S_chapter_dash \o <<"3">>

SeriesHrefs == {H10, H10abs, H10page, H10_5, H11, H9, Hbar}

RECURSIVE SeqsUpTo(_, _)
SeqsUpTo(S, n) ==
    IF n = 0 THEN {<<>>}
    ELSE LET shorter == SeqsUpTo(S, n - 1)
         IN  shorter \cup {Append(q, x) : q \in shorter, x \in S}

\* answers of the series page: raised by _make_request, or parsed anchors
SeriesPages ==
    {[kind |-> "error", anchors |-> <<>>]}
    \cup {[kind |-> "html", anchors |-> a] : a \in SeqsUpTo(SeriesHrefs, MaxLinks)}

\* manga dicts handed to get_chapters
FoxMangas ==
    { [id |-> S_foo, url |-> S_base_url \o S_manga_dir \o S_foo],
      [id |-> S_foo, url |-> <<>>] }

\* manga.get('url') or urljoin(self.base_url, f"/manga/{manga['id']}")
FoxMangaUrl(m) ==
    IF m.url # <<>> THEN m.url ELSE UrlJoin(S_base_url, S_manga_dir \o m.id)

\* the anchor is a chapter link of this manga with a chapter number
IsChapterLink(href, manga_name) ==
    /\ Contains(href, S_chapter_dir)
    /\ Contains(href, manga_name)
    /\ SearchPrefixDigits(href, S_chapter_dash) # <<>>

\* chapter_num = int(match.group(1)) with match = /chapter-(\d+)
ChapterNumOf(href) == StrToInt(SearchPrefixDigits(href, S_chapter_dash))

\* link = href if href.startswith('http') else urljoin(self.base_url, href)
LinkOf(href) ==
    IF StartsWith(href, S_http) THEN href ELSE UrlJoin(S_base_url, href)

\* chapter_urls[chapter_num].append(link); a dict keeps insertion order
DictAppend(d, k, v) ==
    IF \E i \in 1..Len(d) : d[i].key = k
    THEN [i \in 1..Len(d) |->
            IF d[i].key = k THEN [key |-> k, urls |-> Append(d[i].urls, v)]
            ELSE d[i]]
    ELSE Append(d, [key |-> k, urls |-> <<v>>])

\* the loop over chapter_links
RECURSIVE CollectChapterUrls(_, _, _)
CollectChapterUrls(hrefs, manga_name, d) ==
    IF hrefs = <<>> THEN d
    ELSE LET href == Head(hrefs)
         IN  CollectChapterUrls(Tail(hrefs), manga_name,
                IF IsChapterLink(href, manga_name)
                THEN DictAppend(d, ChapterNumOf(href), LinkOf(href))
                ELSE d)

\* key=lambda x: (len(x), x)
UrlBefore(x, y) == Len(x) < Len(y) \/ (Len(x) = Len(y) /\ StrLess(x, y))

\* one chapter entry from the URLs collected for chapter_num
FoxChapter_DropFallback(m, num, urls) ==
    LET sorted == SortBy(urls, UrlBefore)
    IN  [id |-> m.id \o S_chapter_dash \o IntToStr(num),
         title |-> S_Chapter_sp \o IntToStr(num),
         url |-> sorted[1],
         fallback_urls |-> SubSeq(sorted, 3, Len(sorted)),
         manga_id |-> m.id,
         chapter_num |-> num]

FoxChapter(m, num, urls) ==
    LET sorted == SortBy(urls, UrlBefore)
    IN  [id |-> m.id \o S_chapter_dash \o IntToStr(num),
         title |-> S_Chapter_sp \o IntToStr(num),
         url |-> sorted[1],
         fallback_urls |-> Tail(sorted),
         manga_id |-> m.id,
         chapter_num |-> num]

\* key=lambda x: x['chapter_num']
ChapterNumBefore(x, y) == x.chapter_num < y.chapter_num

\* mangaFoxConnector.get_chapters(manga) on the series page it is served
FoxChapters(m, page) ==
    IF page.kind = "error" THEN <<>>
    ELSE LET d == CollectChapterUrls(page.anchors, m.id, <<>>)
             entries == [i \in 1..Len(d) |-> FoxChapter(m, d[i].key, d[i].urls)]
         IN  SortBy(entries, ChapterNumBefore)

FoxGetChapters ==
    /\ cpc = "chapters"
    /\ connector = "mangafox"
    /\ requests' = <<[endpoint |-> "series_page", target |-> FoxMangaUrl(manga)]>>
    /\ chapters' = FoxChapters(manga, series_answer)
    /\ cpc' = "listed"
    /\ UNCHANGED <<connector, query, limit, search_answer, series_answer,
                   results, manga>>
    /\ UNCHANGED notCatalogVars

----------------------------------------------------------------------------
(* OmegaScansConnector.get_chapters                                        *)

MaxApiChapters == 2     \* chapters of one season / of one V2 answer

S_omega_base  == <<"h", "t", "t", "p", "s", ":", "/", "/", "o", "m", "e", "g", "a",
                   "s", "c", "a", "n", "s", ".", "o", "r", "g">>
S_series_dir  == <<"/", "s", "e", "r", "i", "e", "s", "/">>
S_id          == <<"i", "d">>
S_slug        == <<"s", "l", "u", "g">>
S_manga_slug  == <<"m", "a", "n", "g", "a", "_", "s", "l", "u", "g">>
S_chapter_slug == <<"c", "h", "a", "p", "t", "e", "r", "_", "s", "l", "u", "g">>
S_chapter_id  == <<"c", "h", "a", "p", "t", "e", "r", "_", "i", "d">>
S_chapter_lc  == <<"c", "h", "a", "p", "t", "e", "r", "-">>

\* series slugs of the OmegaScans catalog; a slug may need JSON escaping
OmegaSlugs == {<<"m", "y", "-", "h", "e", "r", "o">>, <<"a", "\"", "b">>, <<"c", "\\">>}

\* a chapter object of the API: numbered n, with database id 100 + n
ApiChapter(n) ==
    [id |-> 100 + n,
     chapter_name |-> S_Chapter_sp \o IntToStr(n),
     chapter_title |-> <<>>,
     chapter_slug |-> S_chapter_lc \o IntToStr(n)]

ApiChapters == {ApiChapter(1), ApiChapter(2)}

\* a list names a chapter once
ApiChapterLists ==
    {cs \in SeqsUpTo(ApiChapters, MaxApiChapters) :
        \A i, j \in 1..Len(cs) : i # j => cs[i] # cs[j]}

ApiSeasons == [index : {1, 2}, chapters : ApiChapterLists]

\* answers of /series/{slug}: request or json.loads raised, an object
\* without 'seasons', or an object with one or two seasons
V1Answers ==
    {[kind |-> "error", seasons |-> <<>>], [kind |-> "no_seasons", seasons |-> <<>>]}
    \cup {[kind |-> "series", seasons |-> ss] : ss \in SeqsUpTo(ApiSeasons, 2)}

\* answers of /chapter/query?series_id=...
V2Answers ==
    {[kind |-> "error", data |-> <<>>], [kind |-> "no_data", data |-> <<>>]}
    \cup {[kind |-> "data", data |-> cs] : cs \in ApiChapterLists}

\* json.dumps({'id': ..., 'slug': ...})
OmegaMangaId(series_id, slug) ==
    JsonDumps(<<[key |-> S_id, val |-> JInt(series_id)],
                [key |-> S_slug, val |-> JStr(slug)]>>)

\* manga dicts handed to get_chapters
OmegaMangas ==
    {[id |-> OmegaMangaId(7, slug), title |-> slug] : slug \in OmegaSlugs}
    \cup {[id |-> S_foo, title |-> S_foo]}

\* f"{chapter['chapter_name']} {chapter.get('chapter_title', '')}".strip()
OmegaTitle(prefix, c) ==
    Strip(prefix \o c.chapter_name \o <<" ">> \o c.chapter_title)

\* the entry _get_chapters_v1 appends for chapter c
V1Chapter(m, slug, prefix, c) ==
    [id |-> JsonDumps(<<[key |-> S_id, val |-> JInt(c.id)],
                        [key |-> S_slug, val |-> JStr(c.chapter_slug)]>>),
     title |-> OmegaTitle(prefix, c),
     url |-> UrlJoin(S_omega_base, S_series_dir \o slug \o <<"/">> \o c.chapter_slug),
     manga_id |-> m.id,
     chapter_slug |-> c.chapter_slug,
     chapter_id |-> c.id]

\* the chapters of all seasons, in the order of the answer
RECURSIVE V1Seasons(_, _, _, _)
V1Seasons(m, slug, seasons, n) ==
    IF seasons = <<>> THEN <<>>
    ELSE LET season == Head(seasons)
             prefix == IF n > 1 THEN <<"S">> \o IntToStr(season.index) \o <<" ">>
                       ELSE <<>>
         IN  [i \in 1..Len(season.chapters) |->
                 V1Chapter(m, slug, prefix, season.chapters[i])]
             \o V1Seasons(m, slug, Tail(seasons), n)

\* _get_chapters_v1
GetChaptersV1(m, answer) ==
    IF ~JsonIsObject(m.id) \/ ~JsonHas(JsonLoads(m.id), S_slug) THEN <<>>
    ELSE IF answer.kind # "series" THEN <<>>
    ELSE V1Seasons(m, JsonGet(JsonLoads(m.id), S_slug).s, answer.seasons,
                   Len(answer.seasons))

\* the entry _get_chapters_v2 appends for chapter c
V2Chapter(m, manga_slug, c) ==
    [id |-> JsonDumps(<<[key |-> S_manga_slug, val |-> JStr(manga_slug)],
                        [key |-> S_chapter_slug, val |-> JStr(c.chapter_slug)],
                        [key |-> S_chapter_id, val |-> JInt(c.id)]>>),
     title |-> OmegaTitle(<<>>, c),
     url |-> UrlJoin(S_omega_base, S_chapter_dir \o c.chapter_slug),
     manga_id |-> m.id,
     chapter_slug |-> c.chapter_slug,
     chapter_id |-> c.id]

\* _get_chapters_v2
GetChaptersV2(m, answer) ==
    IF ~JsonIsObject(m.id) THEN <<>>
    ELSE LET manga_data == JsonLoads(m.id)
         IN  IF ~JsonHas(manga_data, S_id) \/ ~JsonHas(manga_data, S_slug) THEN <<>>
             ELSE IF answer.kind # "data" THEN <<>>
             ELSE [i \in 1..Len(answer.data) |->
                     V2Chapter(m, JsonGet(manga_data, S_slug).s, answer.data[i])]

\* the requests _get_chapters_v1 / _get_chapters_v2 issue for manga m
V1Requests(m) ==
    IF JsonIsObject(m.id) /\ JsonHas(JsonLoads(m.id), S_slug)
    THEN <<[endpoint |-> "series_api", target |-> JsonGet(JsonLoads(m.id), S_slug).s]>>
    ELSE <<>>

V2Requests(m) ==
    IF /\ JsonIsObject(m.id)
       /\ JsonHas(JsonLoads(m.id), S_id)
       /\ JsonHas(JsonLoads(m.id), S_slug)
    THEN <<[endpoint |-> "chapter_query",
            target |-> IntToStr(JsonGet(JsonLoads(m.id), S_id).n)]>>
    ELSE <<>>

\* OmegaScansConnector.get_chapters: V1, and V2 when V1 gave nothing
OmegaGetChapters ==
    /\ cpc = "chapters"
    /\ connector = "omegascans"
    /\ LET first == GetChaptersV1(manga, series_answer.v1)
       IN  IF first # <<>>
           THEN /\ chapters' = first
                /\ requests' = V1Requests(manga)
           ELSE /\ chapters' = GetChaptersV2(manga, series_answer.v2)
                /\ requests' = V1Requests(manga) \o V2Requests(manga)
    /\ cpc' = "listed"
    /\ UNCHANGED <<connector, query, limit, search_answer, series_answer,
                   results, manga>>
    /\ UNCHANGED notCatalogVars

\* what the chapter API of OmegaScans serves: V1 and V2 answers
OmegaSeriesAnswers(v1s, v2s) ==
    {[kind |-> "api", v1 |-> v1, v2 |-> v2] : v1 \in v1s, v2 \in v2s}

InitChapters ==
    /\ IdleFallback
    /\ IdlePages
    /\ IdleDownload
    /\ IdleUnpack
    /\ IdleApiPages
    /\ IdleHttp
    /\ IdleJob
    /\ cpc = "chapters"
    /\ \/ /\ connector = "mangafox"
          /\ manga \in FoxMangas
          /\ series_answer \in SeriesPages
       \/ /\ connector = "omegascans"
          /\ manga \in OmegaMangas
          /\ series_answer \in OmegaSeriesAnswers(V1Answers, V2Answers)
    /\ query = <<>>
    /\ limit = 0
    /\ search_answer = [kind |-> "none"]
    /\ results = <<>>
    /\ chapters = <<>>
    /\ requests = <<>>

NextChapters ==
    \/ FoxGetChapters
    \/ OmegaGetChapters

SpecChapters == InitChapters /\ [][NextChapters]_vars

\* get_chapters returned
Listed(c) == cpc = "listed" /\ connector = c

\* ch_num of _fetch_chapters: the first number of the chapter title
TitleNumber(title) == StrToInt(SearchPrefixDigits(title, <<>>))

\* the numeric chapter key of an entry of the returned list
ChapterKey(c) ==
    IF connector = "mangafox" THEN c.chapter_num ELSE TitleNumber(c.title)

\* C2: every list returned by get_chapters is non-decreasing by numeric
\* chapter key and has no two entries with the same key.
C2_SortedDistinctKeys ==
    cpc = "listed" =>
        \A i, j \in 1..Len(chapters) :
            i < j => ChapterKey(chapters[i]) < ChapterKey(chapters[j])

\* the anchors of the series page that get_chapters collects for chapter num
CollectedFor(num) ==
    {k \in 1..Len(series_answer.anchors) :
        /\ IsChapterLink(series_answer.anchors[k], manga.id)
        /\ ChapterNumOf(series_answer.anchors[k]) = num}

\* C9: for each chapter number the primary URL is a shortest collected link
\* and the fallbacks are exactly the other collected links, none lost.
C9_ShortestPrimaryRestFallback ==
    (Listed("mangafox") /\ series_answer.kind = "html") =>
        /\ \A k \in 1..Len(series_answer.anchors) :
             IsChapterLink(series_answer.anchors[k], manga.id) =>
                \E i \in 1..Len(chapters) :
                    chapters[i].chapter_num = ChapterNumOf(series_answer.anchors[k])
        /\ \A i \in 1..Len(chapters) :
             LET c     == chapters[i]
                 kept  == <<c.url>> \o c.fallback_urls
                 links == {LinkOf(series_answer.anchors[k]) :
                              k \in CollectedFor(c.chapter_num)}
             IN  /\ \A u \in links : Len(c.url) <= Len(u)
                 /\ {kept[n] : n \in 1..Len(kept)} = links
                 /\ \A u \in links :
                      Count(kept, u) =
                        Cardinality({k \in CollectedFor(c.chapter_num) :
                                        LinkOf(series_answer.anchors[k]) = u})

C9_Witness ==
    /\ Listed("mangafox")
    /\ series_answer.kind = "html"
    /\ series_answer.anchors = <<H10page, H10abs, H10>>
    /\ Len(chapters) = 1
    /\ chapters[1].url = S_base_url \o H10
    /\ chapters[1].fallback_urls = <<S_base_url \o H10, S_base_url \o H10page>>

\* C10: links for chapters 10, 10.5 and 11 give three entries, chapter 10.5
\* between chapter 10 and chapter 11.
C10_FractionalChapters ==
    ( /\ Listed("mangafox")
      /\ series_answer.kind = "html"
      /\ Len(series_answer.anchors) = 3
      /\ {series_answer.anchors[k] : k \in 1..3} = {H10, H10_5, H11} )
        => /\ Len(chapters) = 3
           /\ chapters[1].url = S_base_url \o H10
           /\ chapters[2].url = S_base_url \o H10_5
           /\ chapters[3].url = S_base_url \o H11

----------------------------------------------------------------------------
(* mangaFoxConnector.search_manga                                          *)

MaxAnchors == 3         \* anchors of a search result page

S_Foo == <<"F", "o", "o">>
S_Bar == <<"B", "a", "r">>

\* anchors of the search page: href and stripped text
SearchAnchors ==
    { [href |-> S_manga_dir \o S_foo, text |-> S_Foo],
      [href |-> S_manga_dir \o S_foo \o <<"-", "2">>, text |-> S_Foo \o <<" ", "2">>],
      [href |-> S_manga_dir \o <<"m", "y", "-">> \o S_foo,
       text |-> <<"M", "y", " ">> \o S_Foo],
      [href |-> S_manga_dir \o S_foo \o <<"-", "x">>, text |-> S_Bar],
      [href |-> S_manga_dir \o S_bar, text |-> S_Bar],
      [href |-> S_base_url \o S_manga_dir \o S_foo \o <<"/">>, text |-> <<>>],
      [href |-> S_manga_dir \o S_foo, text |-> <<"F", "O", "O", " ", "2">>],
      [href |-> S_base_url \o S_manga_dir \o S_foo, text |-> S_Foo] }

\* answers of the search page: raised by _make_request, or parsed anchors
SearchPages(n) ==
    {[kind |-> "error", anchors |-> <<>>]}
    \cup {[kind |-> "html", anchors |-> a] : a \in SeqsUpTo(SearchAnchors, n)}

FoxQueries == {S_foo, S_Foo}

\* manga_name = href.split('/manga/')[-1].split('/')[0]
MangaNameOf(href) == SplitFirst(SplitLast(href, S_manga_dir), <<"/">>)

\* title = text if text and len(text) > 2 else slug title
TitleOf(a) ==
    IF Len(a.text) > 2 THEN a.text
    ELSE Title(ReplaceChar(MangaNameOf(a.href), "-", " "))

\* the links that pass the find_all filter and the seen_urls test,
\* with a manga name and a title, in page order
RECURSIVE FoxCandidates(_, _)
FoxCandidates(anchors, seen_urls) ==
    IF anchors = <<>> THEN <<>>
    ELSE LET a == Head(anchors)
         IN  IF ~Contains(a.href, S_manga_dir) \/ a.href \in seen_urls
             THEN FoxCandidates(Tail(anchors), seen_urls)
             ELSE (IF MangaNameOf(a.href) # <<>> /\ TitleOf(a) # <<>>
                   THEN <<[id |-> MangaNameOf(a.href), title |-> TitleOf(a),
                           url |-> UrlJoin(S_base_url, a.href)]>>
                   ELSE <<>>)
                  \o FoxCandidates(Tail(anchors), seen_urls \cup {a.href})

\* "Calculate relevance score"
RelevanceScore(title, manga_name, q) ==
    IF Lower(title) = Lower(q) THEN 100
    ELSE IF StartsWith(Lower(title), Lower(q)) THEN 50
    ELSE IF Contains(Lower(title), Lower(q)) THEN 20
    ELSE IF Contains(Lower(manga_name), Lower(q)) THEN 10
    ELSE 0

\* the scored_results list: candidates with score > 0, in page order
RECURSIVE Scored(_, _)
Scored(cands, q) ==
    IF cands = <<>> THEN <<>>
    ELSE LET c == Head(cands)
             score == RelevanceScore(c.title, c.id, q)
         IN  (IF score > 0
              THEN <<[id |-> c.id, title |-> c.title, url |-> c.url,
                      relevance_score |-> score]>>
              ELSE <<>>)
             \o Scored(Tail(cands), q)

\* sort(key=relevance_score, reverse=True)
ScoreBefore_Ascending(x, y) == x.relevance_score < y.relevance_score

ScoreBefore(x, y) == x.relevance_score > y.relevance_score

\* scored_results[:limit] if limit else scored_results
Limited(rs, lim) ==
    IF lim # 0 /\ lim < Len(rs) THEN SubSeq(rs, 1, lim) ELSE rs

\* mangaFoxConnector.search_manga(query, limit) on the page it is served
FoxSearchResults(q, lim, page) ==
    IF page.kind = "error" THEN <<>>
    ELSE Limited(SortBy(Scored(FoxCandidates(page.anchors, {}), q), ScoreBefore),
                 lim)

FoxSearch ==
    /\ cpc = "search"
    /\ connector = "mangafox"
    /\ requests' = <<[endpoint |-> "search", target |-> query]>>
    /\ results' = FoxSearchResults(query, limit, search_answer)
    /\ cpc' = "searched"
    /\ UNCHANGED <<connector, query, limit, search_answer, series_answer,
                   manga, chapters>>
    /\ UNCHANGED notCatalogVars

InitSearch ==
    /\ IdleFallback
    /\ IdlePages
    /\ IdleDownload
    /\ IdleUnpack
    /\ IdleApiPages
    /\ IdleHttp
    /\ IdleJob
    /\ cpc = "search"
    /\ connector = "mangafox"
    /\ query \in FoxQueries
    /\ limit \in 0..2
    /\ search_answer \in SearchPages(MaxAnchors)
    /\ series_answer = [kind |-> "none"]
    /\ results = <<>>
    /\ manga = [id |-> <<>>]
    /\ chapters = <<>>
    /\ requests = <<>>

NextSearch ==
    \/ FoxSearch

SpecSearch == InitSearch /\ [][NextSearch]_vars

\* search_manga of mangaFox returned a parsed page's results
Searched(c) == cpc = "searched" /\ connector = c

\* relevance tier of a result entry, in the words of the contract
Tier(e) ==
    IF Lower(e.title) = Lower(query) THEN 4
    ELSE IF StartsWith(Lower(e.title), Lower(query)) THEN 3
    ELSE IF Contains(Lower(e.title), Lower(query)) THEN 2
    ELSE IF Contains(Lower(e.id), Lower(query)) THEN 1
    ELSE 0

\* the entries of tier t that search collected, in anchor order
TierInAnchorOrder(t) ==
    SelectSeq(FoxCandidates(search_answer.anchors, {}), LAMBDA c : Tier(c) = t)

\* C3: results are ordered exact > prefix > substring > slug match, and
\* entries of one tier keep the order of their anchors.
C3_OrderedByTierStable ==
    (Searched("mangafox") /\ search_answer.kind = "html") =>
        /\ \A i, j \in 1..Len(results) :
              i < j => Tier(results[i]) >= Tier(results[j])
        /\ LET expected == TierInAnchorOrder(4) \o TierInAnchorOrder(3)
                           \o TierInAnchorOrder(2) \o TierInAnchorOrder(1)
           IN  /\ Len(results) <= Len(expected)
               /\ \A i \in 1..Len(results) :
                     /\ results[i].id = expected[i].id
                     /\ results[i].title = expected[i].title
                     /\ results[i].url = expected[i].url

C3_Witness ==
    /\ Searched("mangafox")
    /\ Len(search_answer.anchors) = 3
    /\ Len(results) = 3
    /\ Tier(results[1]) = 4
    /\ Tier(results[2]) = 3
    /\ Tier(results[3]) = 3
    /\ Tier(FoxCandidates(search_answer.anchors, {})[3]) = 4

\* C11: no two entries of one search result have the same absolute series
\* URL, whether the anchors were relative or absolute.
C11_DistinctCanonicalUrls ==
    Searched("mangafox") =>
        \A i, j \in 1..Len(results) :
            i # j => results[i].url # results[j].url

----------------------------------------------------------------------------
(* OmegaScansConnector.search_manga, and the way from a search result to   *)
(* get_chapters of the same connector.                                     *)

MaxHits         == 2    \* entries a search answer or a catalog page holds
MaxCatalogPages == 2    \* non-empty catalog pages per adult flag

CatalogLimit == 200     \* self.get_mangas(limit=200)

S_true  == <<"t", "r", "u", "e">>
S_false == <<"f", "a", "l", "s", "e">>

\* series objects of the API: 'id', 'series_slug' and 'title'
ApiMangas ==
    { [id |-> 7, series_slug |-> <<"m", "y", "-", "h", "e", "r", "o">>,
       title |-> S_Foo],
      [id |-> 8, series_slug |-> <<"a", "\"", "b">>,
       title |-> <<"M", "y", " ">> \o S_Foo],
      [id |-> 9, series_slug |-> <<"c", "\\">>, title |-> S_Bar] }

\* answers of /query/{query}: raised, no 'data', or a list of series
SearchAnswers ==
    {[kind |-> "error", data |-> <<>>], [kind |-> "no_data", data |-> <<>>]}
    \cup {[kind |-> "data", data |-> d] : d \in SeqsUpTo(ApiMangas, MaxHits)}

\* the non-empty pages /query?perPage=100&page=..&adult=.. serves, per flag
CatalogAnswers ==
    [adult   : SeqsUpTo(SeqsUpTo(ApiMangas, 1) \ {<<>>}, MaxCatalogPages),
     general : SeqsUpTo({<<m>> : m \in {x \in ApiMangas : x.id = 9}}, 1)]

OmegaQueries == {S_foo, <<"m", "y", " ">> \o S_foo}

\* query.replace(' ', '%20')
RECURSIVE QuoteSpaces(_)
QuoteSpaces(s) ==
    IF s = <<>> THEN <<>>
    ELSE (IF s[1] = " " THEN <<"%", "2", "0">> ELSE <<s[1]>>)
         \o QuoteSpaces(Tail(s))

\* the dict _search_api and _get_mangas_from_page build for a series
OmegaEntry(m) ==
    [id |-> OmegaMangaId(m.id, m.series_slug),
     title |-> m.title,
     url |-> UrlJoin(S_omega_base, S_series_dir \o m.series_slug),
     series_slug |-> m.series_slug,
     series_id |-> m.id]

\* OmegaScansConnector._search_api(query, limit)
SearchApi(lim, answer) ==
    IF answer.kind # "data" THEN <<>>
    ELSE LET data == Limited(answer.data, lim)
         IN  [i \in 1..Len(data) |-> OmegaEntry(data[i])]

\* OmegaScansConnector._get_mangas_from_page(page, adult)
GetMangasFromPage(pages, page) ==
    IF page <= Len(pages)
    THEN [i \in 1..Len(pages[page]) |-> OmegaEntry(pages[page][i])]
    ELSE <<>>

CatalogRequest(page, adult) ==
    [endpoint |-> "catalog",
     target |-> IntToStr(page) \o <<"&">> \o (IF adult THEN S_true ELSE S_false)]

\* the "while True" loop of get_mangas for one adult flag, from page on
RECURSIVE CatalogPages(_, _, _, _, _, _)
CatalogPages(pages, page, adult, manga_list, reqs, lim) ==
    LET mangas == GetMangasFromPage(pages, page)
        sent   == Append(reqs, CatalogRequest(page, adult))
        longer == manga_list \o mangas
    IN  IF mangas = <<>>
        THEN [manga_list |-> manga_list, requests |-> sent, returned |-> FALSE]
        ELSE IF lim # 0 /\ Len(longer) >= lim
        THEN [manga_list |-> SubSeq(longer, 1, lim), requests |-> sent,
              returned |-> TRUE]
        ELSE CatalogPages(pages, page + 1, adult, longer, sent, lim)

\* OmegaScansConnector.get_mangas(limit): adult content, then the rest
GetMangas(catalog, lim) ==
    LET first == CatalogPages(catalog.adult, 1, TRUE, <<>>, <<>>, lim)
    IN  IF first.returned THEN first
        ELSE CatalogPages(catalog.general, 1, FALSE, first.manga_list,
                          first.requests, lim)

\* the local filter of search_manga over all_manga
RECURSIVE LocalFilter(_, _, _, _)
LocalFilter(all_manga, q, lim, found) ==
    IF all_manga = <<>> THEN found
    ELSE IF Contains(Lower(Head(all_manga).title), Lower(q))
    THEN (IF lim # 0 /\ Len(found) + 1 >= lim
          THEN Append(found, Head(all_manga))
          ELSE LocalFilter(Tail(all_manga), q, lim, Append(found, Head(all_manga))))
    ELSE LocalFilter(Tail(all_manga), q, lim, found)

\* OmegaScansConnector.search_manga(query, limit): the returned list and
\* the requests sent
OmegaSearchManga(q, lim, answer) ==
    LET by_api == SearchApi(lim, answer.search)
        asked  == <<[endpoint |-> "search", target |-> QuoteSpaces(q)]>>
    IN  IF by_api # <<>>
        THEN [results |-> by_api, requests |-> asked]
        ELSE LET all_manga == GetMangas(answer.catalog, CatalogLimit)
             IN  [results |-> LocalFilter(all_manga.manga_list, q, lim, <<>>),
                  requests |-> asked \o all_manga.requests]

OmegaSearch ==
    /\ cpc = "search"
    /\ connector = "omegascans"
    /\ results' = OmegaSearchManga(query, limit, search_answer).results
    /\ requests' = OmegaSearchManga(query, limit, search_answer).requests
    /\ cpc' = "searched"
    /\ UNCHANGED <<connector, query, limit, search_answer, series_answer,
                   manga, chapters>>
    /\ UNCHANGED notCatalogVars

\* _fetch_chapters builds the manga dict it hands to connector.get_chapters
\* from the id, the url and the title stored for a search result
MangaDict(entry) == [id |-> entry.id, url |-> entry.url, title |-> entry.title]

FetchChapters ==
    /\ cpc = "searched"
    /\ \E k \in 1..Len(results) : manga' = MangaDict(results[k])
    /\ cpc' = "chapters"
    /\ UNCHANGED <<connector, query, limit, search_answer, series_answer,
                   results, chapters, requests>>
    /\ UNCHANGED notCatalogVars

\* series pages and chapter answers served after the search
RoundTripSeriesPages ==
    {[kind |-> "error", anchors |-> <<>>]}
    \cup {[kind |-> "html", anchors |-> a] : a \in SeqsUpTo({H10, H11, Hbar}, 1)}

RoundTripV1Answers ==
    {[kind |-> "error", seasons |-> <<>>],
     [kind |-> "series",
      seasons |-> <<[index |-> 1, chapters |-> <<ApiChapter(1)>>]>>]}

RoundTripV2Answers ==
    {[kind |-> "error", data |-> <<>>],
     [kind |-> "data", data |-> <<ApiChapter(1), ApiChapter(2)>>]}

InitRoundTrip ==
    /\ IdleFallback
    /\ IdlePages
    /\ IdleDownload
    /\ IdleUnpack
    /\ IdleApiPages
    /\ IdleHttp
    /\ IdleJob
    /\ cpc = "search"
    /\ \/ /\ connector = "mangafox"
          /\ query \in FoxQueries
          /\ search_answer \in SearchPages(MaxHits)
          /\ series_answer \in RoundTripSeriesPages
       \/ /\ connector = "omegascans"
          /\ query \in OmegaQueries
          /\ search_answer \in
                [kind : {"api"}, search : SearchAnswers, catalog : CatalogAnswers]
          /\ series_answer \in
                OmegaSeriesAnswers(RoundTripV1Answers, RoundTripV2Answers)
    /\ limit \in 0..1
    /\ results = <<>>
    /\ manga = [id |-> <<>>]
    /\ chapters = <<>>
    /\ requests = <<>>

NextRoundTrip ==
    \/ FoxSearch
    \/ OmegaSearch
    \/ FetchChapters
    \/ FoxGetChapters
    \/ OmegaGetChapters

SpecRoundTrip == InitRoundTrip /\ [][NextRoundTrip]_vars

\* the entries of the search result that carry the id handed to get_chapters
EntriesOfId == {k \in 1..Len(results) : results[k].id = manga.id}

\* get_chapters re-resolved the identity of the series
AskedCatalogAgain ==
    \E k \in 1..Len(requests) : requests[k].endpoint \in {"search", "catalog"}

\* C8: an id produced by search and handed to get_chapters of the same
\* connector resolves to the series search found it for: get_chapters asks
\* for that series (OmegaScans: the slug and the numeric id the search API
\* gave, read back from the serialized id; mangaFox: the page of the series
\* the id names) and sends no search or catalog request.
C8_IdRoundTrip ==
    cpc = "listed" =>
        /\ ~AskedCatalogAgain
        /\ EntriesOfId # {}
        /\ connector = "omegascans" =>
              \A k \in EntriesOfId :
                 /\ Len(requests) \in 1..2
                 /\ requests[1] = [endpoint |-> "series_api",
                                   target |-> results[k].series_slug]
                 /\ Len(requests) = 2 =>
                       requests[2] = [endpoint |-> "chapter_query",
                                      target |-> IntToStr(results[k].series_id)]
                 /\ \A c \in 1..Len(chapters) : chapters[c].manga_id = results[k].id
        /\ connector = "mangafox" =>
              /\ Len(requests) = 1
              /\ requests[1].endpoint = "series_page"
              /\ Contains(requests[1].target, S_manga_dir \o manga.id)
              /\ \A c \in 1..Len(chapters) : chapters[c].manga_id = manga.id

\* a series whose slug needs escaping was found by search, and get_chapters
\* listed its chapters through the V2 endpoint
C8_Witness ==
    /\ Listed("omegascans")
    /\ Contains(manga.id, <<"\\", "\"">>)
    /\ Len(requests) = 2
    /\ Len(chapters) = 2

----------------------------------------------------------------------------
(* HentaiFoxConnector.search and mangaConnectorManager.search_all          *)

MaxFanHits == 2     \* anchors, titles or series one answer holds

S_gallery_dir == <<"/", "g", "a", "l", "l", "e", "r", "y", "/">>
S_hentai_base == <<"h", "t", "t", "p", "s", ":", "/", "/", "h", "e", "n", "t",
                   "a", "i", "f", "o", "x", ".", "c", "o", "m">>

\* s.split(sep) for a one-character separator
RECURSIVE SplitParts(_, _)
SplitParts(s, sep) ==
    IF Find(s, <<sep>>) = 0 THEN <<s>>
    ELSE <<SubSeq(s, 1, Find(s, <<sep>>) - 1)>>
         \o SplitParts(SubSeq(s, Find(s, <<sep>>) + 1, Len(s)), sep)

\* s.isdigit()
IsDigitStr(s) == s # <<>> /\ \A i \in 1..Len(s) : IsDigit(s[i])

\* h2.g_title elements of a HentaiFox search page: the href of the link
\* inside the title (empty when there is none) and the title text
HentaiTitles ==
    { [href |-> S_gallery_dir \o <<"1", "2", "3", "/">>, text |-> S_Foo],
      [href |-> S_gallery_dir \o <<"a", "b", "c", "/">>, text |-> S_Bar],
      [href |-> <<>>, text |-> S_Foo] }

\* answers of the HentaiFox search URL; an answer with an HTTP error status
\* has a body too
HentaiPages ==
    [kind : {"error", "html"}, titles : SeqsUpTo(HentaiTitles, MaxFanHits)]

\* the entry search appends for one title element, if any
HentaiEntry(t) ==
    IF t.href = <<>> THEN <<>>
    ELSE LET href_parts == SplitParts(t.href, "/")
         IN  IF Len(href_parts) > 2 /\ IsDigitStr(href_parts[3])
             THEN <<[id |-> href_parts[3], title |-> t.text,
                     link |-> S_hentai_base \o S_gallery_dir \o href_parts[3]
                              \o <<"/">>]>>
             ELSE <<>>

RECURSIVE HentaiEntries(_)
HentaiEntries(titles) ==
    IF titles = <<>> THEN <<>>
    ELSE HentaiEntry(Head(titles)) \o HentaiEntries(Tail(titles))

\* HentaiFoxConnector.search(query): requests.get and raise_for_status are
\* inside the try whose handler returns []
HentaiSearch_IgnoreStatus(page) == HentaiEntries(page.titles)

HentaiSearch(page) ==
    IF page.kind = "error" THEN <<>> ELSE HentaiEntries(page.titles)

HentaiFoxSearch ==
    /\ cpc = "search"
    /\ connector = "hentaifox"
    /\ results' = HentaiSearch(search_answer)
    /\ requests' = <<[endpoint |-> "search", target |-> query]>>
    /\ cpc' = "searched"
    /\ UNCHANGED <<connector, query, limit, search_answer, series_answer,
                   manga, chapters>>
    /\ UNCHANGED notCatalogVars

\* self.connectors, in the order of the dict
Connectors == <<"mangafox", "omegascans", "hentaifox">>

\* connector.search_manga(query, limit=limit_per_source) as search_all sees
\* it: HentaiFoxConnector defines search but no search_manga, so the call
\* raises AttributeError
ConnectorSearchManga(name, q, lim, answers) ==
    CASE name = "mangafox" ->
            [raised |-> FALSE,
             results |-> FoxSearchResults(q, lim, answers.mangafox),
             requests |-> <<[endpoint |-> "search", target |-> q]>>]
      [] name = "omegascans" ->
            [raised |-> FALSE,
             results |-> OmegaSearchManga(q, lim, answers.omegascans).results,
             requests |-> OmegaSearchManga(q, lim, answers.omegascans).requests]
      [] name = "hentaifox" ->
            [raised |-> TRUE, results |-> <<>>, requests |-> <<>>]

\* the loop of search_all over the connectors names, from results so far
RECURSIVE SearchAllFrom_Abort(_, _, _, _, _)
SearchAllFrom_Abort(names, q, lim, answers, sofar) ==
    IF names = <<>> THEN sofar
    ELSE LET r == ConnectorSearchManga(Head(names), q, lim, answers)
         IN  IF r.raised THEN sofar
             ELSE SearchAllFrom_Abort(Tail(names), q, lim, answers,
                     [results |-> Append(sofar.results,
                                    [name |-> Head(names), results |-> r.results]),
                      requests |-> sofar.requests \o r.requests])

RECURSIVE SearchAllFrom(_, _, _, _, _)
SearchAllFrom(names, q, lim, answers, sofar) ==
    IF names = <<>> THEN sofar
    ELSE LET r == ConnectorSearchManga(Head(names), q, lim, answers)
             connector_results == IF r.raised THEN <<>> ELSE r.results
         IN  SearchAllFrom(Tail(names), q, lim, answers,
                [results |-> Append(sofar.results,
                                [name |-> Head(names), results |-> connector_results]),
                 requests |-> sofar.requests \o r.requests])

\* mangaConnectorManager.search_all(query, limit_per_source)
SearchAll ==
    /\ cpc = "search"
    /\ connector = "manager"
    /\ LET all == SearchAllFrom(Connectors, query, limit, search_answer,
                                [results |-> <<>>, requests |-> <<>>])
       IN  /\ results' = all.results
           /\ requests' = all.requests
    /\ cpc' = "searched"
    /\ UNCHANGED <<connector, query, limit, search_answer, series_answer,
                   manga, chapters>>
    /\ UNCHANGED notCatalogVars

\* search pages of mangaHub, with a body under an error status too
FanOutPages ==
    [kind : {"error", "html"},
     anchors : SeqsUpTo({a \in SearchAnchors : a.text \in {S_Foo, S_Bar}},
                        MaxFanHits)]

\* answers of the OmegaScans API to one search
FanOutApiAnswers ==
    [kind : {"api"},
     search : [kind : {"error", "data"},
               data : SeqsUpTo({m \in ApiMangas : m.id # 8}, 1)],
     catalog : [adult : SeqsUpTo({<<m>> : m \in {x \in ApiMangas : x.id = 7}}, 1),
                general : SeqsUpTo({<<m>> : m \in {x \in ApiMangas : x.id = 9}}, 1)]]

InitFanOut ==
    /\ IdleFallback
    /\ IdlePages
    /\ IdleDownload
    /\ IdleUnpack
    /\ IdleApiPages
    /\ IdleHttp
    /\ IdleJob
    /\ cpc = "search"
    /\ \/ /\ connector = "mangafox"
          /\ search_answer \in FanOutPages
       \/ /\ connector = "omegascans"
          /\ search_answer \in FanOutApiAnswers
       \/ /\ connector = "hentaifox"
          /\ search_answer \in HentaiPages
       \/ /\ connector = "manager"
          /\ search_answer \in
                [kind : {"all"}, mangafox : FanOutPages,
                 omegascans : FanOutApiAnswers]
    /\ query \in FoxQueries
    /\ limit \in {1, 10}
    /\ series_answer = [kind |-> "none"]
    /\ results = <<>>
    /\ manga = [id |-> <<>>]
    /\ chapters = <<>>
    /\ requests = <<>>

NextFanOut ==
    \/ FoxSearch
    \/ OmegaSearch
    \/ HentaiFoxSearch
    \/ SearchAll

SpecFanOut == InitFanOut /\ [][NextFanOut]_vars

\* the transport failed for some request of the search
SomeRequestFailed ==
    IF connector = "omegascans" THEN search_answer.search.kind = "error"
    ELSE search_answer.kind = "error"

\* the transport failed for every request of the search
EveryRequestFailed ==
    IF connector = "omegascans"
    THEN /\ search_answer.search.kind = "error"
         /\ search_answer.catalog.adult = <<>>
         /\ search_answer.catalog.general = <<>>
    ELSE search_answer.kind = "error"

SingleSearched == cpc = "searched" /\ connector # "manager"

\* C12 as stated: a search of any connector during which the transport
\* fails returns an empty list.
C12_EmptyOnAnyFailure ==
    (SingleSearched /\ SomeRequestFailed) => results = <<>>

\* C12: a search of any connector returns to its caller, and it returns an
\* empty list when the transport failed for every request it made.
C12_FailsSoft ==
    /\ cpc \in {"search", "searched"}
    /\ (SingleSearched /\ EveryRequestFailed) => results = <<>>

\* each connector's search has met an error status on a page with entries
C12_Witness ==
    /\ SingleSearched
    /\ EveryRequestFailed
    /\ \/ connector = "mangafox" /\ Len(search_answer.anchors) = 2
       \/ connector = "hentaifox" /\ HentaiEntries(search_answer.titles) # <<>>
       \/ connector = "omegascans" /\ search_answer.search.data # <<>>
    /\ results = <<>>

\* the results of search_all, by connector name
ResultOf(name) ==
    LET k == CHOOSE k \in 1..Len(results) : results[k].name = name
    IN  results[k].results

\* C13: search_all returns one entry per registered connector; a connector
\* whose search raises contributes an empty list and the lists of the other
\* connectors are the ones their own search returned.
C13_FanOutIsolated ==
    (cpc = "searched" /\ connector = "manager") =>
        /\ Len(results) = Len(Connectors)
        /\ \A k \in 1..Len(Connectors) : results[k].name = Connectors[k]
        /\ ResultOf("hentaifox") = <<>>
        /\ ResultOf("mangafox")
              = FoxSearchResults(query, limit, search_answer.mangafox)
        /\ ResultOf("omegascans")
              = OmegaSearchManga(query, limit, search_answer.omegascans).results

C13_Witness ==
    /\ cpc = "searched"
    /\ connector = "manager"
    /\ Len(results) = 3
    /\ Len(results[1].results) = 2
    /\ Len(results[2].results) = 1
    /\ results[3] = [name |-> "hentaifox", results |-> <<>>]

----------------------------------------------------------------------------
(* mangaDownloader._download_chapter_with_connector                        *)

MaxChapterPages == 3    \* page URLs the connector returns for a chapter

MaxRetries             == 3     \* max_retries = 3
MaxConsecutiveFailures == 5     \* max_consecutive_failures = 5

\* answers of one image request: status 200, another status, or a raise
ImageAnswers == {"ok", "status", "exception"}

\* what one page request of the retry loop meets:
\*   exception  session.get raised
\*   status     a status other than 200
\*   image      200 with an image content type
\*   packed     200 with packed JavaScript from which n image URLs unpack
\*   html       200 with anything else
\* dl[k] is the answer the image server gives for the k-th extracted URL.
PageAnswers ==
    {[kind |-> k, n |-> 0, dl |-> <<>>] :
        k \in {"exception", "status", "image", "html"}}
    \cup UNION {{[kind |-> "packed", n |-> n, dl |-> dl] :
                    dl \in [1..n -> ImageAnswers]} : n \in 0..2}

\* the pvalue array of API call i (0-based): n = 2 gives the previous and
\* the current page image, numbered from 000; n = 1 only the current one
PValue(i, n) ==
    IF n = 2 THEN <<i, i + 1>> ELSE IF n = 1 THEN <<i + 1>> ELSE <<>>

\* positions of img_urls that are put in selected_urls
SelectedUrls(i, n) ==
    IF i = 0 /\ n >= 2 THEN <<1, 2>>
    ELSE IF n >= 2 THEN <<2>>
    ELSE [k \in 1..n |-> k]

\* "for img_url in selected_urls": the positions whose image is appended;
\* the loop breaks at the first status 200 and swallows what an image raises
RECURSIVE StoredOfSelected(_, _)
StoredOfSelected(selected, dl) ==
    IF selected = <<>> THEN <<>>
    ELSE IF dl[Head(selected)] = "ok" THEN <<Head(selected)>>
    ELSE StoredOfSelected(Tail(selected), dl)

\* (filename, content) with filename = str(num).zfill(4) + ext
ImageEntry(num, source, img) ==
    [num |-> num, content |-> [source |-> source, img |-> img]]

\* one pass of the body of "for attempt in range(max_retries)" for page i:
\* the images appended, success, whether the outer except ran, and the
\* extraction strategies that were called on the response.
\* The class defines no _extract_image_from_page_html (its body follows the
\* return of _extract_image_urls_from_packed_js), so the call of the HTML
\* branch raises AttributeError.
AttemptResult(i, imgs, answer) ==
    CASE answer.kind = "exception" ->
            [stored |-> <<>>, success |-> FALSE, raised |-> TRUE,
             bad_status |-> FALSE, tried |-> <<>>]
      [] answer.kind = "status" ->
            [stored |-> <<>>, success |-> FALSE, raised |-> FALSE,
             bad_status |-> TRUE, tried |-> <<>>]
      [] answer.kind = "image" ->
            [stored |-> <<ImageEntry(Len(imgs) + 1, "direct", i + 1)>>,
             success |-> TRUE, raised |-> FALSE, bad_status |-> FALSE,
             tried |-> <<"direct">>]
      [] answer.kind = "packed" ->
            LET img_urls == PValue(i, answer.n)
                kept == StoredOfSelected(SelectedUrls(i, answer.n), answer.dl)
            IN  [stored |-> [k \in 1..Len(kept) |->
                                ImageEntry(i + 1, "api", img_urls[kept[k]])],
                 success |-> kept # <<>>, raised |-> FALSE, bad_status |-> FALSE,
                 tried |-> <<"unpack">>]
      [] answer.kind = "html" ->
            [stored |-> <<>>, success |-> FALSE, raised |-> TRUE,
             bad_status |-> FALSE, tried |-> <<"html">>]

\* connector.get_pages(chapter) returned; an empty list ends the download
StartDownload ==
    /\ dpc = "start"
    /\ dpc' = IF page_urls = <<>> THEN "done" ELSE "pages"
    /\ UNCHANGED <<page_urls, page_index, attempt, retry_delay, images,
                   consecutive_failures, failed_pages, last_call>>
    /\ UNCHANGED notDownloadVars

\* one attempt for page i, and the bookkeeping that follows it
PageAttempt(answer) ==
    /\ dpc = "pages"
    /\ LET r  == AttemptResult(page_index, images, answer)
           cf == IF r.success THEN 0
                 ELSE IF r.raised \/ r.bad_status THEN consecutive_failures + 1
                 ELSE consecutive_failures
           page_over == r.success \/ attempt = MaxRetries - 1
           stop == ~r.success /\ page_over /\ cf >= MaxConsecutiveFailures
       IN  /\ images' = images \o r.stored
           /\ consecutive_failures' = cf
           /\ last_call' = [kind |-> answer.kind, i |-> page_index,
                            n |-> answer.n, dl |-> answer.dl,
                            tried |-> r.tried, success |-> r.success]
           /\ failed_pages' = IF ~r.success /\ page_over
                              THEN Append(failed_pages, page_index + 1)
                              ELSE failed_pages
           /\ IF page_over
              THEN /\ attempt' = 0
                   /\ retry_delay' = 1
                   /\ page_index' = page_index + 1
                   /\ dpc' = IF stop \/ page_index + 1 = Len(page_urls)
                             THEN "done" ELSE "pages"
              ELSE /\ attempt' = attempt + 1
                   /\ retry_delay' = IF r.raised THEN retry_delay * 2
                                     ELSE retry_delay
                   /\ UNCHANGED <<page_index, dpc>>
    /\ UNCHANGED page_urls
    /\ UNCHANGED notDownloadVars

DownloadPage == \E answer \in PageAnswers : PageAttempt(answer)

InitDownload ==
    /\ IdleFallback
    /\ IdlePages
    /\ IdleCatalog
    /\ IdleUnpack
    /\ IdleApiPages
    /\ IdleHttp
    /\ IdleJob
    /\ dpc = "start"
    /\ page_urls \in {[k \in 1..n |-> k] : n \in 0..MaxChapterPages}
    /\ page_index = 0
    /\ attempt = 0
    /\ retry_delay = 1
    /\ images = <<>>
    /\ consecutive_failures = 0
    /\ failed_pages = <<>>
    /\ last_call = [kind |-> "none"]

NextDownload ==
    \/ StartDownload
    \/ DownloadPage

SpecDownload == InitDownload /\ [][NextDownload]_vars

\* the API image img of the page call i was appended to images
KeptFromCall(i, img) ==
    \E k \in 1..Len(images) :
        images[k] = [num |-> i + 1, content |-> [source |-> "api", img |-> img]]

\* C4: when the pagination API returns two images, the first page call keeps
\* both of them and every later call keeps only the second.
C4_FirstCallKeepsBoth ==
    ( /\ last_call.kind = "packed"
      /\ last_call.n = 2
      /\ \A k \in 1..2 : last_call.dl[k] = "ok" )
        => IF last_call.i = 0
           THEN KeptFromCall(0, 0) /\ KeptFromCall(0, 1)
           ELSE /\ KeptFromCall(last_call.i, last_call.i + 1)
                /\ ~KeptFromCall(last_call.i, last_call.i)

\* C28: within one chapter the page numbers of the stored filenames are
\* distinct and increase in page order, for every mix of page outcomes.
C28_PageNumbersIncrease ==
    \A j, k \in 1..Len(images) : j < k => images[j].num < images[k].num

\* C15: when the unpacker yields no URL for a packed page response, the
\* caller tries its other extraction strategies on that page.
C15_FallsBackToHtmlScan ==
    (dpc # "start" /\ last_call.kind = "packed" /\ last_call.n = 0)
        => \E k \in 1..Len(last_call.tried) : last_call.tried[k] = "html"

----------------------------------------------------------------------------
(* OmegaScansConnector.get_pages, called by _download_chapter_with_connector *)

MaxApiImages == 2   \* entries of the image list of a chapter answer

S_api_base == <<"h", "t", "t", "p", "s", ":", "/", "/", "a", "p", "i", ".",
                "o", "m", "e", "g", "a", "s", "c", "a", "n", "s", ".", "o", "r", "g">>

\* chapter dicts handed to get_pages: listed by V2, listed by V1, and one
\* whose id is no JSON object
OmegaChapters ==
    { V2Chapter([id |-> OmegaMangaId(7, S_foo)], S_foo, ApiChapter(1)),
      V1Chapter([id |-> OmegaMangaId(7, S_foo)], S_foo, <<>>, ApiChapter(1)),
      [id |-> S_foo, title |-> S_foo] }

\* image entries of the answer: absolute, relative, and without a source
ApiImages ==
    { S_https \o <<"/", "/", "m", "/", "1", ".", "j", "p", "g">>,
      <<"/", "u", "/", "2", ".", "j", "p", "g">>,
      <<>> }

\* answers of /chapter/{manga_slug}/{chapter_slug}: the request or the
\* JSON decoding raised, or an object
PageApiAnswers ==
    {[kind |-> "error", paywall |-> FALSE, novel |-> FALSE, images |-> <<>>,
      storage |-> "s3"]}
    \cup [kind : {"json"}, paywall : BOOLEAN, novel : BOOLEAN,
          images : SeqsUpTo(ApiImages, MaxApiImages),
          storage : {"s3", "local", "other"}]

\* the page URL appended for one image of the answer, if any
ApiPageUrl(image_url, storage) ==
    IF image_url = <<>> THEN <<>>
    ELSE IF storage = "local" /\ ~StartsWith(image_url, S_http)
    THEN <<UrlJoin(S_api_base, image_url)>>
    ELSE <<image_url>>

RECURSIVE ApiPageUrls(_, _)
ApiPageUrls(api_images, storage) ==
    IF api_images = <<>> THEN <<>>
    ELSE ApiPageUrl(Head(api_images), storage)
         \o ApiPageUrls(Tail(api_images), storage)

\* the chapter id names a manga slug and a chapter slug
HasPageSlugs(ch) ==
    /\ JsonIsObject(ch.id)
    /\ JsonHas(JsonLoads(ch.id), S_manga_slug)
    /\ JsonHas(JsonLoads(ch.id), S_chapter_slug)
    /\ JsonGet(JsonLoads(ch.id), S_manga_slug).s # <<>>
    /\ JsonGet(JsonLoads(ch.id), S_chapter_slug).s # <<>>

\* OmegaScansConnector.get_pages(chapter): the returned list. The paywall
\* exception is raised inside the try whose handler returns [].
OmegaGetPages(ch, answer) ==
    IF ~HasPageSlugs(ch) THEN <<>>
    ELSE IF answer.kind = "error" THEN <<>>
    ELSE IF answer.paywall THEN <<>>
    ELSE IF answer.novel THEN <<>>
    ELSE ApiPageUrls(answer.images, answer.storage)

\* _download_chapter_with_connector up to the page loop, for OmegaScans:
\* page_urls = connector.get_pages(chapter); an empty list returns []
OmegaStartDownload ==
    /\ dpc = "start"
    /\ page_urls' = OmegaGetPages(page_call.chapter, page_call.answer)
    /\ dpc' = IF page_urls' = <<>> THEN "done" ELSE "pages"
    /\ UNCHANGED <<page_index, attempt, retry_delay, images,
                   consecutive_failures, failed_pages, last_call>>
    /\ UNCHANGED notDownloadVars

InitApiPages ==
    /\ IdleFallback
    /\ IdlePages
    /\ IdleCatalog
    /\ IdleUnpack
    /\ IdleHttp
    /\ IdleJob
    /\ page_call \in [kind : {"call"}, chapter : OmegaChapters,
                      answer : PageApiAnswers]
    /\ dpc = "start"
    /\ page_urls = <<>>
    /\ page_index = 0
    /\ attempt = 0
    /\ retry_delay = 1
    /\ images = <<>>
    /\ consecutive_failures = 0
    /\ failed_pages = <<>>
    /\ last_call = [kind |-> "none"]

NextApiPages == OmegaStartDownload

SpecApiPages == InitApiPages /\ [][NextApiPages]_vars

\* what the caller of get_pages holds after the call
CallerOutcome == [page_urls |-> page_urls, dpc |-> dpc, images |-> images]

\* what the caller holds after a call for chapter ch answered by answer
CallerOutcomeFor(ch, answer) ==
    LET urls == OmegaGetPages(ch, answer)
    IN  [page_urls |-> urls, dpc |-> IF urls = <<>> THEN "done" ELSE "pages",
         images |-> <<>>]

\* answers for a chapter without images, and for a chapter that is not found
NoImagesAnswer ==
    [kind |-> "json", paywall |-> FALSE, novel |-> FALSE, images |-> <<>>,
     storage |-> "s3"]
NotFoundAnswer ==
    [kind |-> "error", paywall |-> FALSE, novel |-> FALSE, images |-> <<>>,
     storage |-> "s3"]

\* C30: every chapter OmegaScans get_chapters returns, from the V1 or the
\* V2 path, carries in its id the manga slug and chapter slug get_pages
\* needs, so get_pages does not reject it for missing identifier fields.
C30_ListedChaptersUsable ==
    (cpc = "listed" /\ connector = "omegascans")
        => \A k \in 1..Len(chapters) : HasPageSlugs(chapters[k])

\* C16: what the caller of get_pages receives for a paywalled chapter
\* differs from what it receives for a chapter without images and for a
\* chapter that was not found.
C16_PaywallDistinct ==
    (dpc # "start" /\ page_call.answer.kind = "json" /\ page_call.answer.paywall
        /\ HasPageSlugs(page_call.chapter))
        => /\ CallerOutcome # CallerOutcomeFor(page_call.chapter, NoImagesAnswer)
           /\ CallerOutcome # CallerOutcomeFor(page_call.chapter, NotFoundAnswer)

----------------------------------------------------------------------------
(* mangaDownloader._unpack_fanfox_javascript: the substitution loop         *)

MaxCode == 3    \* characters of the packed code

\* characters of the packed code, and entries of the dictionary
CodeChars   == {"0", "1", "a", " "}
DictEntries == {<<>>, <<"1">>, <<"a">>, <<"x", "y">>}

\* 'e0|e1' and 'e0|e1|||||||||e10': dictionaries of 2 and of 11 entries
DictStrings ==
    {e0 \o <<"|">> \o e1 : e0, e1 \in DictEntries}
    \cup {e0 \o <<"|">> \o e1 \o <<"|", "|", "|", "|", "|", "|", "|", "|", "|">>
             \o e10 : e0, e1, e10 \in DictEntries}

\* \w of the re module, for ASCII
IsWordChar(c) == IsDigit(c) \/ IsUpper(c) \/ IsLower(c) \/ c = "_"

\* position j of s holds the one-character word ch: \bch\b matches there
WholeWordAt(s, j, ch) ==
    /\ s[j] = ch
    /\ j = 1 \/ ~IsWordChar(s[j - 1])
    /\ j = Len(s) \/ ~IsWordChar(s[j + 1])

\* re.sub(r'\b' + ch + r'\b', repl, s) for a one-character word ch
RECURSIVE SubWordFrom(_, _, _, _)
SubWordFrom(s, j, ch, repl) ==
    IF j > Len(s) THEN <<>>
    ELSE (IF WholeWordAt(s, j, ch) THEN repl ELSE <<s[j]>>)
         \o SubWordFrom(s, j + 1, ch, repl)

SubWord(s, ch, repl) == SubWordFrom(s, 1, ch, repl)

\* str(i) for i < 10, chr(ord('a') + i - 10) for 10 <= i < 36
Placeholder(i) == IF i < 10 THEN Digits[i + 1] ELSE LowerCase[i - 9]

\* "for i in range(len(k_array))": the substitutions from index i on
RECURSIVE SubstituteFrom(_, _, _)
SubstituteFrom(result, k_array, i) ==
    IF i >= Len(k_array) THEN result
    ELSE SubstituteFrom(IF k_array[i + 1] # <<>>
                        THEN SubWord(result, Placeholder(i), k_array[i + 1])
                        ELSE result,
                        k_array, i + 1)

\* result of the substitution loop for the captured code and dictionary
Substituted(js) == SubstituteFrom(js.p_code, SplitParts(js.k_str, "|"), 0)

\* the pattern needs a non-empty code; without a match nothing is unpacked
Unpack ==
    /\ upc = "packed"
    /\ unpacked' = IF packed_js.p_code = <<>> THEN <<>> ELSE Substituted(packed_js)
    /\ upc' = "unpacked"
    /\ UNCHANGED packed_js
    /\ UNCHANGED notUnpackVars

InitUnpack ==
    /\ IdleFallback
    /\ IdlePages
    /\ IdleCatalog
    /\ IdleDownload
    /\ IdleApiPages
    /\ IdleHttp
    /\ IdleJob
    /\ upc = "packed"
    /\ packed_js \in [p_code : SeqsUpTo(CodeChars, MaxCode), k_str : DictStrings]
    /\ unpacked = <<>>

NextUnpack == Unpack

SpecUnpack == InitUnpack /\ [][NextUnpack]_vars

\* the dictionary index whose placeholder is the one-character word ch,
\* when ch is a placeholder of a non-empty entry
EntryFor(k_array, ch) ==
    {i \in 0..(Len(k_array) - 1) : Placeholder(i) = ch /\ k_array[i + 1] # <<>>}

\* every whole-word placeholder of the code replaced by its own entry, and
\* every other character kept
RECURSIVE ReplacedOnce(_, _, _)
ReplacedOnce(code, k_array, j) ==
    IF j > Len(code) THEN <<>>
    ELSE LET own == {i \in EntryFor(k_array, code[j]) :
                        WholeWordAt(code, j, code[j])}
         IN  (IF own # {} THEN k_array[(CHOOSE i \in own : TRUE) + 1]
              ELSE <<code[j]>>)
             \o ReplacedOnce(code, k_array, j + 1)

\* C14: the unpacked code is the packed code with each whole-word
\* placeholder replaced once by its own dictionary entry; other text, and
\* the text a substitution inserted, is left as it is.
C14_EachPlaceholderOnce ==
    (upc = "unpacked" /\ packed_js.p_code # <<>>) =>
        unpacked = ReplacedOnce(packed_js.p_code,
                                SplitParts(packed_js.k_str, "|"), 1)

----------------------------------------------------------------------------
(* start_download.background_download running mangaDownloader.download_manga *)
(* with a connector manager, and delete_download cancelling it.             *)

MaxJobChapters == 2     \* chapters _fetch_chapters returns
MaxJobPages    == 2     \* page URLs get_pages returns for a chapter

\* update_progress: the row is gone or its status is 'cancelled'
Cancelled == job_status \in {"cancelled", "deleted"}

\* {'success': False, 'error': ...}
FailureResult(error) == [success |-> FALSE, error |-> error]

\* {'success': True, 'message': f'Downloaded {n} chapters', 'file_path':
\*  series_dir, 'chapters_downloaded': n}
SuccessResult(n) ==
    [success |-> TRUE, message |-> <<"Downloaded", n, "chapters">>,
     file_path |-> "series_dir", chapters_downloaded |-> n]

\* delete_download marks a running download cancelled and removes its row
Cancel ==
    /\ jpc \notin {"idle", "returned"}
    /\ \/ job_status = "downloading" /\ job_status' = "cancelled"
       \/ job_status = "cancelled" /\ job_status' = "deleted"
    /\ UNCHANGED <<jpc, job_chapters, job_idx, cbz_files, job_result, detected,
                   after_detect>>
    /\ UNCHANGED same_path
    /\ UNCHANGED <<pagesVars, catalogVars, downloadVars, unpackVars,
                   apiPagesVars, httpVars,
                   fallbackVars>>

\* background_download before download_manga: the three reads of the row,
\* each returning when the row is gone or cancelled
JobPreCheck ==
    /\ jpc = "queued"
    /\ jpc' = IF Cancelled THEN "returned" ELSE "start"
    /\ UNCHANGED <<job_status, job_chapters, job_idx, cbz_files, job_result,
                   detected, after_detect, same_path>>
    /\ UNCHANGED <<pagesVars, catalogVars, downloadVars, unpackVars,
                   apiPagesVars, httpVars, fallbackVars>>

\* download_manga up to the chapter loop: the progress polls at 5, 15 and
\* 25 percent and the chapter list
JobStart ==
    /\ jpc = "start"
    /\ IF Cancelled
       THEN /\ detected' = TRUE
            /\ job_result' = FailureResult("Download cancelled by user")
            /\ jpc' = "done"
       ELSE IF job_chapters = 0
       THEN /\ job_result' = FailureResult("No chapters found")
            /\ jpc' = "done"
            /\ UNCHANGED detected
       ELSE /\ jpc' = "chapter"
            /\ UNCHANGED <<detected, job_result>>
    /\ UNCHANGED <<job_status, job_chapters, job_idx, cbz_files, after_detect>>
    /\ UNCHANGED same_path
    /\ UNCHANGED <<pagesVars, catalogVars, downloadVars, unpackVars,
                   apiPagesVars, httpVars,
                   fallbackVars>>

\* top of the chapter loop: the progress poll, then
\* _download_chapter_with_connector up to its page loop
JobChapterStart ==
    /\ jpc = "chapter"
    /\ IF Cancelled
       THEN /\ detected' = TRUE
            /\ job_result' = FailureResult("Download cancelled by user")
            /\ jpc' = "done"
            /\ UNCHANGED downloadVars
       ELSE /\ \E n \in 0..MaxJobPages :
                  /\ page_urls' = [k \in 1..n |-> k]
                  /\ dpc' = IF n = 0 THEN "done" ELSE "pages"
            /\ page_index' = 0
            /\ attempt' = 0
            /\ retry_delay' = 1
            /\ images' = <<>>
            /\ consecutive_failures' = 0
            /\ failed_pages' = <<>>
            /\ last_call' = [kind |-> "none"]
            /\ jpc' = "downloading"
            /\ UNCHANGED <<detected, job_result>>
    /\ UNCHANGED <<job_status, job_chapters, job_idx, cbz_files, after_detect>>
    /\ UNCHANGED same_path
    /\ UNCHANGED <<pagesVars, catalogVars, unpackVars, apiPagesVars, httpVars,
                   fallbackVars>>

\* one attempt for a page of the chapter; the page-level progress poll
\* precedes the first attempt of each page
JobPageAttempt ==
    /\ jpc = "downloading"
    /\ attempt = 0 => ~Cancelled
    /\ \E answer \in PageAnswers : PageAttempt(answer)

\* the page-level poll raises: the handler at the end of
\* _download_chapter_with_connector catches the exception and calls
\* _download_chapter, which requests the chapter page and returns []
JobPageCancelled ==
    /\ jpc = "downloading"
    /\ dpc = "pages"
    /\ attempt = 0
    /\ Cancelled
    /\ detected' = TRUE
    /\ after_detect' = [after_detect EXCEPT !.requests = @ + 1]
    /\ images' = <<>>
    /\ dpc' = "done"
    /\ UNCHANGED <<page_urls, page_index, attempt, retry_delay,
                   consecutive_failures, failed_pages, last_call>>
    /\ UNCHANGED <<jpc, job_status, job_chapters, job_idx, cbz_files, job_result>>
    /\ UNCHANGED same_path
    /\ UNCHANGED <<pagesVars, catalogVars, unpackVars, apiPagesVars, httpVars,
                   fallbackVars>>

\* the chapter's images are back in download_manga: a CBZ file is written
\* when there are images (and the file system allows it)
JobChapterEnd_AbortOnEmpty ==
    /\ jpc = "downloading"
    /\ dpc = "done"
    /\ IF images # <<>>
       THEN \E written \in BOOLEAN :
              /\ cbz_files' = IF written THEN Append(cbz_files, job_idx + 1)
                              ELSE cbz_files
              /\ after_detect' = IF written /\ detected
                                 THEN [after_detect EXCEPT !.archives = @ + 1]
                                 ELSE after_detect
       ELSE UNCHANGED <<cbz_files, after_detect>>
    /\ job_idx' = job_idx + 1
    /\ jpc' = IF images = <<>> THEN "done"
              ELSE IF job_idx + 1 = job_chapters THEN "finish" ELSE "chapter"
    /\ job_result' = IF images = <<>> THEN FailureResult("No images") ELSE job_result
    /\ UNCHANGED <<job_status, job_chapters, detected>>
    /\ UNCHANGED same_path
    /\ UNCHANGED <<pagesVars, catalogVars, downloadVars, unpackVars,
                   apiPagesVars, httpVars,
                   fallbackVars>>

JobChapterEnd ==
    /\ jpc = "downloading"
    /\ dpc = "done"
    /\ IF images # <<>>
       THEN \E written \in BOOLEAN :
              /\ cbz_files' = IF written THEN Append(cbz_files, job_idx + 1)
                              ELSE cbz_files
              /\ after_detect' = IF written /\ detected
                                 THEN [after_detect EXCEPT !.archives = @ + 1]
                                 ELSE after_detect
       ELSE UNCHANGED <<cbz_files, after_detect>>
    /\ job_idx' = job_idx + 1
    /\ jpc' = IF job_idx + 1 = job_chapters THEN "finish" ELSE "chapter"
    /\ UNCHANGED <<job_status, job_chapters, job_result, detected>>
    /\ UNCHANGED same_path
    /\ UNCHANGED <<pagesVars, catalogVars, downloadVars, unpackVars,
                   apiPagesVars, httpVars,
                   fallbackVars>>

\* download_manga after the chapter loop
JobFinish ==
    /\ jpc = "finish"
    /\ IF cbz_files = <<>>
       THEN /\ job_result' = FailureResult("Failed to download any chapters")
            /\ UNCHANGED detected
       ELSE IF Cancelled
       THEN /\ detected' = TRUE
            /\ job_result' = FailureResult("Download cancelled by user")
       ELSE /\ job_result' = SuccessResult(Len(cbz_files))
            /\ UNCHANGED detected
    /\ jpc' = "done"
    /\ UNCHANGED <<job_status, job_chapters, job_idx, cbz_files, after_detect>>
    /\ UNCHANGED same_path
    /\ UNCHANGED <<pagesVars, catalogVars, downloadVars, unpackVars,
                   apiPagesVars, httpVars,
                   fallbackVars>>

\* auth_db.update_download(..., {'status': st, ...}): UPDATE ... WHERE id
\* changes nothing when the row has been deleted
Updated(st) == IF job_status = "deleted" THEN "deleted" ELSE st

\* what background_download leaves alone after download_manga returned
JobKeeps ==
    /\ UNCHANGED <<job_chapters, job_idx, cbz_files, job_result, detected,
                   after_detect, same_path>>
    /\ UNCHANGED <<pagesVars, catalogVars, downloadVars, unpackVars,
                   apiPagesVars, httpVars, fallbackVars>>

\* "Check if cancelled or removed before processing result", then the
\* branch on result.get('success')
JobPostCheck ==
    /\ jpc = "done"
    /\ jpc' = IF Cancelled THEN "returned"
              ELSE IF job_result.success THEN "success_check"
              ELSE "write_failed"
    /\ UNCHANGED job_status
    /\ JobKeeps

\* "Check again if still exists", then "if temp_path != final_destination
\* and result.get('file_path')"
JobSuccessCheck ==
    /\ jpc = "success_check"
    /\ jpc' = IF job_status = "deleted" THEN "returned"
              ELSE IF ~same_path THEN "move_poll"
              ELSE "write_completed"
    /\ UNCHANGED job_status
    /\ JobKeeps

\* update_progress(95, ...) inside the try of the move: when it raises,
\* the handler of move_error runs
JobMovePoll ==
    /\ jpc = "move_poll"
    /\ jpc' = IF Cancelled THEN "write_move_failed" ELSE "moving"
    /\ UNCHANGED job_status
    /\ JobKeeps

\* the series directory is moved or merged; the file system may refuse
JobMove ==
    /\ jpc = "moving"
    /\ \E moved \in BOOLEAN :
          jpc' = IF moved THEN "write_completed" ELSE "write_move_failed"
    /\ UNCHANGED job_status
    /\ JobKeeps

\* except Exception as move_error: status 'failed', return
JobWriteMoveFailed ==
    /\ jpc = "write_move_failed"
    /\ job_status' = Updated("failed")
    /\ jpc' = "returned"
    /\ JobKeeps

\* update_download({'status': 'completed', 'progress': 100, 'destination':
\* final_series_path}): final_series_path is assigned only inside the move
\* branch, so building the dict raises when that branch was skipped
JobWriteCompleted ==
    /\ jpc = "write_completed"
    /\ IF same_path
       THEN /\ jpc' = "handler"
            /\ UNCHANGED job_status
       ELSE /\ job_status' = Updated("completed")
            /\ jpc' = "returned"
    /\ JobKeeps

\* else branch of result.get('success'): status 'failed'
JobWriteFailed ==
    /\ jpc = "write_failed"
    /\ job_status' = Updated("failed")
    /\ jpc' = "returned"
    /\ JobKeeps

\* outer "except Exception": the row is read again
JobHandlerCheck ==
    /\ jpc = "handler"
    /\ jpc' = IF Cancelled THEN "returned" ELSE "handler_write"
    /\ UNCHANGED job_status
    /\ JobKeeps

\* ... and set to 'failed' when it was there and not cancelled
JobHandlerWrite ==
    /\ jpc = "handler_write"
    /\ job_status' = Updated("failed")
    /\ jpc' = "returned"
    /\ JobKeeps

InitJob ==
    /\ IdleFallback
    /\ IdlePages
    /\ IdleCatalog
    /\ IdleDownload
    /\ IdleUnpack
    /\ IdleApiPages
    /\ IdleHttp
    /\ jpc = "queued"
    /\ job_status = "downloading"
    /\ job_chapters \in 0..MaxJobChapters
    /\ job_idx = 0
    /\ cbz_files = <<>>
    /\ job_result = <<>>
    /\ detected = FALSE
    /\ after_detect = [requests |-> 0, archives |-> 0]
    /\ same_path \in BOOLEAN

NextJob ==
    \/ Cancel
    \/ JobPreCheck
    \/ JobStart
    \/ JobChapterStart
    \/ JobPageAttempt
    \/ JobPageCancelled
    \/ JobChapterEnd
    \/ JobFinish
    \/ JobPostCheck
    \/ JobSuccessCheck
    \/ JobMovePoll
    \/ JobMove
    \/ JobWriteMoveFailed
    \/ JobWriteCompleted
    \/ JobWriteFailed
    \/ JobHandlerCheck
    \/ JobHandlerWrite

SpecJob == InitJob /\ [][NextJob]_vars

\* C17: after the progress poll that sees the cancellation the job sends
\* no further request and writes no further archive.
C17_AbortsAtPoll ==
    detected => after_detect = [requests |-> 0, archives |-> 0]

\* every chapter of the job has been handed to the chapter downloader
AllChaptersAttempted == job_idx = job_chapters

\* the state of the retry loop of one page: at most MaxRetries passes, and
\* the wait is 1 doubled once per pass that raised
RetryBounded ==
    dpc = "pages" =>
        /\ attempt \in 0..(MaxRetries - 1)
        /\ retry_delay \in {1, 2, 4}
        /\ (attempt = 0 => retry_delay = 1)
        /\ (attempt = 1 => retry_delay \in {1, 2})

\* a pass that raised and is followed by another pass doubles the wait
BackoffDoubles ==
    (jpc = "downloading" /\ attempt' = attempt + 1 /\ last_call'.kind = "exception")
        => retry_delay' = 2 * retry_delay

\* the chapter downloader hands back to the chapter loop, whatever it lost
ChapterLoopContinues ==
    (jpc = "downloading" /\ jpc' # "downloading")
        => /\ jpc' = IF job_idx + 1 = job_chapters THEN "finish" ELSE "chapter"
           /\ job_result' = job_result

C27_CancelledIsFinal ==
    [][job_status = "cancelled" => job_status' \notin {"completed", "failed"}]_vars

\* C29: download_manga returned success, the row is still 'downloading'
\* (never cancelled or deleted) and any move went through: what the thread
\* does next is to set the status to 'completed'; this includes the case
\* where temp_path equals the destination.
C29_SuccessEndsCompleted ==
    [][(jpc = "write_completed" /\ job_status = "downloading" /\ jpc' # jpc)
          => job_status' = "completed"]_vars

\* chapters of the job for which no archive was written
FailedChapters == job_chapters - Len(cbz_files)

\* C20: a partially failed multi-chapter download reports success and its
\* result tells how many chapters failed: it differs from the result of a
\* download that wrote the same archives and lost no chapter.
C20_ReportsFailedChapters ==
    (jpc = "done" /\ ~detected /\ cbz_files # <<>> /\ FailedChapters > 0)
        => /\ job_result.success
           /\ job_result # SuccessResult(Len(cbz_files))

----------------------------------------------------------------------------
(* mangaConnector._make_request under a transport that times out, and a     *)
(* connector operation that uses it.                                         *)

MaxTimeouts == 1     \* requests the transport lets time out before answering
MaxRequestAnchors == 1   \* anchors on the page the request returns

\* one call of _make_request: sleep, one session.get, raise_for_status; the
\* handler of requests.Timeout logs and re-raises
MakeRequest(h) ==
    [timeouts |-> h.timeouts, sent |-> h.sent + 1,
     raised |-> h.sent < h.timeouts]

\* mangaFoxConnector.search_manga on top of _make_request: whatever the
\* request raises is caught by the handler of search_manga, which returns []
FoxSearchRequest ==
    /\ cpc = "search"
    /\ connector = "mangafox"
    /\ http' = MakeRequest(http)
    /\ requests' = <<[endpoint |-> "search", target |-> query]>>
    /\ results' = IF http'.raised THEN <<>>
                  ELSE FoxSearchResults(query, limit, search_answer)
    /\ cpc' = "searched"
    /\ UNCHANGED <<connector, query, limit, search_answer, series_answer,
                   manga, chapters>>
    /\ UNCHANGED <<pagesVars, downloadVars, unpackVars, apiPagesVars, jobVars,
                   fallbackVars>>

InitRequest ==
    /\ IdleFallback
    /\ IdlePages
    /\ IdleDownload
    /\ IdleUnpack
    /\ IdleApiPages
    /\ IdleJob
    /\ http \in [timeouts : 0..MaxTimeouts, sent : {0}, raised : {FALSE}]
    /\ cpc = "search"
    /\ connector = "mangafox"
    /\ query \in FoxQueries
    /\ limit \in 0..2
    /\ search_answer \in SearchPages(MaxRequestAnchors)
    /\ series_answer = [kind |-> "none"]
    /\ results = <<>>
    /\ manga = [id |-> <<>>]
    /\ chapters = <<>>
    /\ requests = <<>>

NextRequest ==
    \/ FoxSearchRequest

SpecRequest == InitRequest /\ [][NextRequest]_vars

\* C19: a request that timed out is sent again: when the transport lets a
\* single request time out, the search still returns what the page holds.
C19_TimeoutRetried ==
    (cpc = "searched" /\ http.timeouts = 1)
        => /\ http.sent > 1
           /\ results = FoxSearchResults(query, limit, search_answer)

----------------------------------------------------------------------------
(* mangaDownloader._fetch_chapters, the HTML-parsing fallback (the part     *)
(* after the connector branch).                                              *)

MaxPageLinks == 2       \* elements with an href on the series page

\* an href by its shape: absolute path, absolute URL or relative path, and
\* the number after "/c" (0: the href has no /c<digits>)
PageHrefs == [form : {"path", "http", "relative"}, num : 0..2]

\* <a href=...> and other elements that carry an href attribute
PageElements == [tag : {"a", "link"}, href : PageHrefs]

FetchPages ==
    {[kind |-> "error", elements |-> <<>>]}
    \cup {[kind |-> "html", elements |-> e] :
             e \in SeqsUpTo(PageElements, MaxPageLinks)}

FetchUrls == {"series_a", "series_b"}

\* base_domain + href, href itself, or base_path + '/' + href
FullUrl(href, url) ==
    IF href.form = "path" THEN [base |-> "domain", of |-> url, href |-> href]
    ELSE IF href.form = "http" THEN [base |-> "", of |-> "", href |-> href]
    ELSE [base |-> "path", of |-> url, href |-> href]

\* the BeautifulSoup branch keeps '/'-relative and other hrefs apart; the
\* regex branch only tells a leading '/' from the rest
RegexUrl(href, url) ==
    IF href.form = "path" THEN [base |-> "domain", of |-> url, href |-> href]
    ELSE [base |-> "", of |-> "", href |-> href]

\* positions of the elements whose href names a chapter number for the
\* first time, among the elements with one of the tags
FirstOfNumber(elements, tags) ==
    {k \in 1..Len(elements) :
        /\ elements[k].tag \in tags
        /\ elements[k].href.num > 0
        /\ \A j \in 1..(k - 1) :
              ~(elements[j].tag \in tags
                /\ elements[j].href.num = elements[k].href.num)}

\* set of chapter dicts -> list sorted by float(x['number'])
RECURSIVE DictValues(_)
DictValues(S) ==
    IF S = {} THEN <<>>
    ELSE LET x == CHOOSE y \in S :
                     \A z \in S : StrToInt(y.number) <= StrToInt(z.number)
         IN  <<x>> \o DictValues(S \ {x})

\* chapters found in <a href> elements by soup.find_all
SoupChapters(page, url) ==
    DictValues({[number |-> IntToStr(page.elements[k].href.num),
                 title |-> S_Chapter_sp \o IntToStr(page.elements[k].href.num),
                 url |-> FullUrl(page.elements[k].href, url),
                 id |-> <<IntToStr(page.elements[k].href.num)>>,
                 manga_id |-> <<IntToStr(page.elements[k].href.num)>>] :
                    k \in FirstOfNumber(page.elements, {"a"})})

\* chapters found by the href regex over response.text, in any element
RegexChapters(page, url) ==
    DictValues({[number |-> IntToStr(page.elements[k].href.num),
                 title |-> S_Chapter_sp \o IntToStr(page.elements[k].href.num),
                 url |-> RegexUrl(page.elements[k].href, url),
                 id |-> <<>>, manga_id |-> <<>>] :
                    k \in FirstOfNumber(page.elements, {"a", "link"})})

\* {'number': '1', 'title': 'Chapter 1', 'url': url} with or without ids
SyntheticChapter(url, ids) ==
    [number |-> IntToStr(1), title |-> S_Chapter_sp \o IntToStr(1),
     url |-> [base |-> "", of |-> url, href |-> [form |-> "self", num |-> 0]],
     id |-> ids, manga_id |-> ids]

\* chapters as the strategies leave it: soup, else regex, else the last
\* resort
ParsedChapters(page, url) ==
    LET soup == SoupChapters(page, url)
        rest == IF Len(soup) < 1 THEN RegexChapters(page, url) ELSE soup
    IN  IF rest = <<>> THEN <<SyntheticChapter(url, <<>>)>> ELSE rest

\* the assignment before the return ("Defensive: ensure id/manga_id are not
\* dicts")
FallbackResult_KeepParsed(chs, url) == chs

FallbackResult(chs, url) == <<SyntheticChapter(url, <<IntToStr(1)>>)>>

\* the fallback from session.get(url) to its return; an exception of the
\* request gives []
FetchChaptersFallback ==
    /\ fpc = "fetch"
    /\ IF fetch_page.kind = "error"
       THEN /\ parsed' = <<>>
            /\ fetched' = <<>>
       ELSE /\ parsed' = ParsedChapters(fetch_page, fetch_url)
            /\ fetched' = FallbackResult(parsed', fetch_url)
    /\ fpc' = "returned"
    /\ UNCHANGED <<fetch_url, fetch_page>>
    /\ UNCHANGED <<pagesVars, catalogVars, downloadVars, unpackVars,
                   apiPagesVars, httpVars, jobVars>>

InitFallback ==
    /\ IdlePages
    /\ IdleCatalog
    /\ IdleDownload
    /\ IdleUnpack
    /\ IdleApiPages
    /\ IdleHttp
    /\ IdleJob
    /\ fpc = "fetch"
    /\ fetch_url \in FetchUrls
    /\ fetch_page \in FetchPages
    /\ parsed = <<>>
    /\ fetched = <<>>

NextFallback ==
    \/ FetchChaptersFallback

SpecFallback == InitFallback /\ [][NextFallback]_vars

\* C26: when the HTML-parsing fallback runs to its end it returns exactly
\* one chapter, number '1', title 'Chapter 1', url = the series url,
\* whatever the strategies had parsed.
C26_SyntheticChapterOnly ==
    (fpc = "returned" /\ fetch_page.kind = "html") =>
        /\ Len(fetched) = 1
        /\ fetched[1].number = <<"1">>
        /\ fetched[1].title = <<"C", "h", "a", "p", "t", "e", "r", " ", "1">>
        /\ fetched[1].url = [base |-> "", of |-> fetch_url, href |-> [form |-> "self", num |-> 0]]

\* the page listed chapters 1 and 2 and the result is the synthetic chapter
C26_Witness ==
    /\ fpc = "returned"
    /\ Len(parsed) = 2
    /\ parsed[2].number = <<"2">>
    /\ Len(fetched) = 1
    /\ fetched[1].number = <<"1">>
    /\ fetched[1].url # parsed[1].url

====
